---- MODULE Spec2Model ----
(***************************************************************************)
(* Pay-cycle period calculation and budget derivation of the personal     *)
(* finance tracker (src/MainApp.tsx).                                      *)
(*                                                                         *)
(* Representation.                                                         *)
(*   - A date string "YYYY-MM-DD" is a record [y, m, d].                   *)
(*   - A JavaScript Date (an instant) is a record [day, ms]: the local     *)
(*     calendar day, counted in days since 1970-01-01, and the millisecond *)
(*     of that local day.  The local UTC offset tz is fixed (no DST).      *)
(*   - Amounts are integers.  A nullable value is <<>> (null) or <<v>>.    *)
(*   - React: a handler's state update and the render that follows it      *)
(*     (which evaluates the useMemo blocks) are one step; the effects of   *)
(*     that commit run as the next step (RunEffects).                      *)
(***************************************************************************)
EXTENDS Integers, Sequences, FiniteSets, TLC

VARIABLES
    isLoading,               \* useState(true), set false by loadInitialData
    cycleProfiles,           \* sequence of [id, name, config]
    activeCycleId,           \* a profile id, or NoCycle for null
    allDailyExpenses,        \* cycle id -> (date string -> sequence of DailyExpense)
    allFutureExpenses,       \* cycle id -> sequence of FutureExpense
    savedBudgets,            \* sequence of BudgetRecord
    currentCycleBudget,      \* <<>> or <<live BudgetRecord>>
    periodStartDate,         \* memo: <<>> or <<instant>>
    periodEndDate,           \* memo: <<>> or <<instant>>
    currentPeriodSpending,   \* memo: sequence of [category, amount], amount > 0
    isForceCreateModalOpen,  \* useState(false)
    now,                     \* the clock: what new Date() / Date.now() returns
    tz,                      \* local UTC offset in ms (local = UTC + tz)
    effectsPending,          \* a commit happened whose effects have not run yet
    last,                    \* the handler or effect that ran last, with its argument
    storage,                 \* the key-value store: key -> <<>> (absent) or <<value>>
    budgetToDelete,          \* useState(null): <<>> or <<BudgetRecord>>
    isDeleteModalOpen,       \* useState(false)
    budgetUpdates,           \* setSavedBudgets calls queued since the last render
    globalSavings,           \* useState(0)
    localStorage,            \* window.localStorage: key -> <<>> (absent) or <<string>>
    loadPc                   \* where loadInitialData stands: "migrate", then "get"

vars == <<isLoading, cycleProfiles, activeCycleId, allDailyExpenses, allFutureExpenses,
          savedBudgets, currentCycleBudget, periodStartDate, periodEndDate,
          currentPeriodSpending, isForceCreateModalOpen, now, tz, effectsPending, last,
          storage, budgetToDelete, isDeleteModalOpen, budgetUpdates,
          globalSavings, localStorage, loadPc>>

-----------------------------------------------------------------------------
(* Generic helpers *)

Null == <<>>
Some(v) == <<v>>
NoCycle == "none"

RECURSIVE SumSeq(_)
SumSeq(s) == IF s = <<>> THEN 0 ELSE Head(s) + SumSeq(Tail(s))

RECURSIVE SeqOfSet(_)
SeqOfSet(S) == IF S = {} THEN <<>>
               ELSE LET x == CHOOSE x \in S : TRUE IN <<x>> \o SeqOfSet(S \ {x})

Last(sq) == sq[Len(sq)]

Max(a, b) == IF a >= b THEN a ELSE b

-----------------------------------------------------------------------------
(* JavaScript Date arithmetic *)

MsPerDay == 24 * 60 * 60 * 1000
Midnight == 0
Midday == 12 * 60 * 60 * 1000

\* Day number (days since 1970-01-01) of year y, month m (1..12), day 1, plus d - 1:
\* ECMAScript MakeDay, which lets the day-of-month run past the end of the month.
DaysFromCivil(y, m, d) ==
    LET OfYoe(era, yoe, doy) == era * 146097 + yoe * 365 + yoe \div 4 - yoe \div 100 + doy - 719468
        OfYear(yy, mp) == OfYoe(yy \div 400, yy % 400, (153 * mp + 2) \div 5 + d - 1)
    IN  OfYear(IF m <= 2 THEN y - 1 ELSE y, IF m > 2 THEN m - 3 ELSE m + 9)

\* Year, month, day-of-month of a day number: getFullYear / getMonth()+1 / getDate.
CivilFromDays(n) ==
    LET OfMonth(y0, mm, dd) == [y |-> y0 + (IF mm <= 2 THEN 1 ELSE 0), m |-> mm, d |-> dd]
        OfMp(y0, doy, mp) == OfMonth(y0, IF mp < 10 THEN mp + 3 ELSE mp - 9,
                                     doy - (153 * mp + 2) \div 5 + 1)
        OfDoy(y0, doy) == OfMp(y0, doy, (5 * doy + 2) \div 153)
        OfYoe(era, doe, yoe) == OfDoy(yoe + era * 400,
                                      doe - (365 * yoe + yoe \div 4 - yoe \div 100))
        OfDoe(era, doe) ==
            OfYoe(era, doe, (doe - doe \div 1460 + doe \div 36524 - doe \div 146096) \div 365)
        OfZ(z) == OfDoe(z \div 146097, z % 146097)
    IN  OfZ(n + 719468)

\* new Date(`${dateStr}T00:00:00`) and new Date(`${dateStr}T12:00:00`): local time.
ParseLocal(dateStr, msOfDay) ==
    [day |-> DaysFromCivil(dateStr.y, dateStr.m, dateStr.d), ms |-> msOfDay]

\* new Date("YYYY-MM-DD"): a date-only string is read as midnight UTC, which is
\* tz milliseconds after (or before) local midnight of that day.
ParseDateOnly(dateStr, offset) ==
    LET At(d) == IF offset >= 0 THEN [day |-> d, ms |-> offset]
                 ELSE [day |-> d - 1, ms |-> MsPerDay + offset]
    IN  At(DaysFromCivil(dateStr.y, dateStr.m, dateStr.d))

\* Date comparison (<=, >=) compares the time values.
Lte(a, b) == a.day < b.day \/ (a.day = b.day /\ a.ms <= b.ms)
Gte(a, b) == Lte(b, a)
Lt(a, b) == ~Lte(b, a)

\* new Date(t.getTime() - 1)
MinusOneMs(t) == IF t.ms = 0 THEN [day |-> t.day - 1, ms |-> MsPerDay - 1]
                 ELSE [day |-> t.day, ms |-> t.ms - 1]

PlusOneMs(t) == IF t.ms = MsPerDay - 1 THEN [day |-> t.day + 1, ms |-> 0]
                ELSE [day |-> t.day, ms |-> t.ms + 1]

\* `${getFullYear()}-${pad(getMonth()+1)}-${pad(getDate())}`
DateKey(t) == CivilFromDays(t.day)

\* The switch on the frequency: setDate(getDate() + 7 | 14), setMonth(getMonth() + 1),
\* setFullYear(getFullYear() + 1).  No case matches 'una-vez': the date is unchanged.
AdvanceNoYearCarry(t, frequency) ==
    LET SetMonth(c) == DaysFromCivil(c.y, (c.m % 12) + 1, 1) + c.d - 1
        SetFullYear(c) == DaysFromCivil(c.y + 1, c.m, 1) + c.d - 1
    IN  CASE frequency = "semanal"   -> [t EXCEPT !.day = t.day + 7]
          [] frequency = "quincenal" -> [t EXCEPT !.day = t.day + 14]
          [] frequency = "mensual"   -> [t EXCEPT !.day = SetMonth(CivilFromDays(t.day))]
          [] frequency = "anual"     -> [t EXCEPT !.day = SetFullYear(CivilFromDays(t.day))]
          [] OTHER                   -> t

Advance(t, frequency) ==
    LET SetMonth(c) == DaysFromCivil(c.y + (c.m \div 12), (c.m % 12) + 1, 1) + c.d - 1
        SetFullYear(c) == DaysFromCivil(c.y + 1, c.m, 1) + c.d - 1
    IN  CASE frequency = "semanal"   -> [t EXCEPT !.day = t.day + 7]
          [] frequency = "quincenal" -> [t EXCEPT !.day = t.day + 14]
          [] frequency = "mensual"   -> [t EXCEPT !.day = SetMonth(CivilFromDays(t.day))]
          [] frequency = "anual"     -> [t EXCEPT !.day = SetFullYear(CivilFromDays(t.day))]
          [] OTHER                   -> t

-----------------------------------------------------------------------------
(* Category registry *)

\* ./constants INITIAL_CATEGORIES: the fixed, ordered registry; 'savings' is the
\* category handleConfirmForceCreate singles out.  Only the ids matter here.
INITIAL_CATEGORIES == <<"food", "transport", "savings">>

CategoryIds == {INITIAL_CATEGORIES[i] : i \in DOMAIN INITIAL_CATEGORIES}

-----------------------------------------------------------------------------
(* Derived state: the useMemo blocks *)

\* currentDailyExpenses: activeCycleId ? allDailyExpenses[activeCycleId] || {} : {}
EmptyMap == [k \in {} |-> <<>>]

CurrentDailyExpensesOf(allDaily, id) ==
    IF id # NoCycle /\ id \in DOMAIN allDaily THEN allDaily[id] ELSE EmptyMap

\* currentFutureExpenses: activeCycleId ? allFutureExpenses[activeCycleId] || [] : []
CurrentFutureExpensesOf(allFuture, id) ==
    IF id # NoCycle /\ id \in DOMAIN allFuture THEN allFuture[id] ELSE <<>>

\* activeCycleProfile: cycleProfiles.find(p => p.id === activeCycleId)
ActiveCycleProfileOf(profiles, id) ==
    LET First(hits) == IF hits = {} THEN Null
                       ELSE Some(profiles[CHOOSE i \in hits : \A j \in hits : i <= j])
    IN  First({i \in DOMAIN profiles : profiles[i].id = id})

\* activeCycleConfig: activeCycleProfile?.config || null
ActiveCycleConfigOf(profiles, id) ==
    LET ConfigOf(p) == IF p = Null THEN Null ELSE Some(p[1].config)
    IN  ConfigOf(ActiveCycleProfileOf(profiles, id))

\* A mutation of the period loop: while (nextCycleStart < now)
RECURSIVE PeriodLoopExclusive(_, _, _, _)
PeriodLoopExclusive(currentCycleStart, nextCycleStart, frequency, t) ==
    IF Lt(nextCycleStart, t)
    THEN PeriodLoopExclusive(nextCycleStart, Advance(nextCycleStart, frequency), frequency, t)
    ELSE [currentCycleStart |-> currentCycleStart, nextCycleStart |-> nextCycleStart]

\* while (nextCycleStart <= now) { currentCycleStart = nextCycleStart; advance }
RECURSIVE PeriodLoop(_, _, _, _)
PeriodLoop(currentCycleStart, nextCycleStart, frequency, t) ==
    IF Lte(nextCycleStart, t)
    THEN PeriodLoop(nextCycleStart, Advance(nextCycleStart, frequency), frequency, t)
    ELSE [currentCycleStart |-> currentCycleStart, nextCycleStart |-> nextCycleStart]

\* The period boundaries the memo computes for a config at clock value t.
ResolvePeriod(config, t) ==
    LET Bounds(r) == [periodStartDate |-> r.currentCycleStart,
                      periodEndDate   |-> MinusOneMs(r.nextCycleStart)]
        From(cycleStart) == Bounds(PeriodLoop(cycleStart, cycleStart, config.frequency, t))
    IN  From(ParseLocal(config.startDate, Midnight))

\* The date test without its upper bound: expenseDate >= periodStartDate only.
InPeriodNoUpperBound(dateStr, ps, pe) == Gte(ParseLocal(dateStr, Midday), ps)

\* if (expenseDate >= periodStartDate && expenseDate <= periodEndDate)
InPeriod(dateStr, ps, pe) ==
    LET Within(expenseDate) == Gte(expenseDate, ps) /\ Lte(expenseDate, pe)
    IN  Within(ParseLocal(dateStr, Midday))

\* expenses.forEach(exp => { entry = spentByCategory.get(exp.categoryId);
\*                           if (entry) entry.amount += exp.amount })
RECURSIVE AddExpenses(_, _)
AddExpenses(totals, expenses) ==
    IF expenses = <<>> THEN totals
    ELSE LET exp == Head(expenses)
         IN  AddExpenses(IF exp.categoryId \in DOMAIN totals
                         THEN [totals EXCEPT ![exp.categoryId] = @ + exp.amount]
                         ELSE totals,
                         Tail(expenses))

RECURSIVE AddDates(_, _, _, _, _)
AddDates(totals, dateKeys, daily, ps, pe) ==
    IF dateKeys = <<>> THEN totals
    ELSE LET dateStr == Head(dateKeys)
         IN  AddDates(IF InPeriod(dateStr, ps, pe)
                      THEN AddExpenses(totals, daily[dateStr]) ELSE totals,
                      Tail(dateKeys), daily, ps, pe)

\* spentByCategory: every registry category starts at 0; Object.entries(daily) is
\* walked and the in-period dates are added up.
SpentByCategory(daily, ps, pe) ==
    AddDates([c \in CategoryIds |-> 0], SeqOfSet(DOMAIN daily), daily, ps, pe)

\* Array.from(spentByCategory.values()).filter(item => item.amount > 0)
PositiveOnly(spent) ==
    LET F[i \in 0..Len(INITIAL_CATEGORIES)] ==
            IF i = 0 THEN <<>>
            ELSE LET c == INITIAL_CATEGORIES[i]
                 IN  IF spent[c] > 0 THEN Append(F[i - 1], [category |-> c, amount |-> spent[c]])
                     ELSE F[i - 1]
    IN  F[Len(INITIAL_CATEGORIES)]

\* The whole memo { currentPeriodSpending, periodStartDate, periodEndDate }.
PeriodMemo(profiles, id, allDaily, t) ==
    LET Result(p) ==
            [currentPeriodSpending |->
                PositiveOnly(SpentByCategory(CurrentDailyExpensesOf(allDaily, id),
                                             p.periodStartDate, p.periodEndDate)),
             periodStartDate |-> Some(p.periodStartDate),
             periodEndDate |-> Some(p.periodEndDate)]
        Memo(cfg) ==
            IF cfg = Null
            THEN [currentPeriodSpending |-> <<>>, periodStartDate |-> Null,
                  periodEndDate |-> Null]
            ELSE Result(ResolvePeriod(cfg[1], t))
    IN  Memo(ActiveCycleConfigOf(profiles, id))

-----------------------------------------------------------------------------
(* handleConfirmForceCreate: the pure part *)

\* id: `future-${fe.id}-${dateKey}`
FutureId(fe, dateKey) == <<"future", fe.id, dateKey>>

\* The while loop over one future expense: the (dateKey, dailyExp) pairs it pushes,
\* in the order it pushes them.  feEndDate is Null or Some(new Date(fe.endDate)).
RECURSIVE OccurrenceLoop(_, _, _, _, _)
OccurrenceLoop(fe, occurrenceDate, feEndDate, ps, pe) ==
    LET Pushed(dateKey) ==
            IF Gte(occurrenceDate, ps)
            THEN << [dateKey |-> dateKey,
                     exp |-> [id |-> FutureId(fe, dateKey), amount |-> fe.amount,
                              categoryId |-> fe.categoryId]] >>
            ELSE <<>>
    IN  IF Lte(occurrenceDate, pe) /\ (feEndDate = Null \/ Lte(occurrenceDate, feEndDate[1]))
        THEN IF fe.frequency = "una-vez" THEN Pushed(DateKey(occurrenceDate))
             ELSE Pushed(DateKey(occurrenceDate))
                  \o OccurrenceLoop(fe, Advance(occurrenceDate, fe.frequency),
                                    feEndDate, ps, pe)
        ELSE <<>>

\* let occurrenceDate = new Date(`${fe.startDate}T00:00:00`);
\* const feEndDate = fe.endDate ? new Date(fe.endDate) : null;  then the loop.
Materialize(fe, ps, pe, offset) ==
    OccurrenceLoop(fe, ParseLocal(fe.startDate, Midnight),
                   IF fe.endDate = Null THEN Null ELSE Some(ParseDateOnly(fe.endDate[1], offset)),
                   ps, pe)

\* allExpensesInCycle[dateKey] = [...(allExpensesInCycle[dateKey] || []), dailyExp]
RECURSIVE PushAll(_, _)
PushAll(allExpensesInCycle, pushed) ==
    IF pushed = <<>> THEN allExpensesInCycle
    ELSE LET k == Head(pushed).dateKey
             e == Head(pushed).exp
             old == IF k \in DOMAIN allExpensesInCycle THEN allExpensesInCycle[k] ELSE <<>>
         IN  PushAll([d \in DOMAIN allExpensesInCycle \cup {k} |->
                         IF d = k THEN Append(old, e) ELSE allExpensesInCycle[d]],
                     Tail(pushed))

\* for (const fe of currentFutureExpenses) { ... }
RECURSIVE ExpandFutures(_, _, _, _, _)
ExpandFutures(allExpensesInCycle, futures, ps, pe, offset) ==
    IF futures = <<>> THEN allExpensesInCycle
    ELSE ExpandFutures(PushAll(allExpensesInCycle, Materialize(Head(futures), ps, pe, offset)),
                       Tail(futures), ps, pe, offset)

\* const allExpensesInCycle = { ...currentDailyExpenses }; then the expansion.
AllExpensesInCycle(daily, futures, ps, pe, offset) ==
    ExpandFutures(daily, futures, ps, pe, offset)

\* Object.values(allExpensesInCycle).flat()
RECURSIVE Flat(_, _)
Flat(m, keys) == IF keys = <<>> THEN <<>> ELSE m[Head(keys)] \o Flat(m, Tail(keys))

\* categoryAmounts.get(cat.id) || 0 after summing every expense under its categoryId
CategoryAmount(expenses, c) ==
    LET F[i \in 0..Len(expenses)] ==
            IF i = 0 THEN 0
            ELSE F[i - 1] + (IF expenses[i].categoryId = c THEN expenses[i].amount ELSE 0)
    IN  F[Len(expenses)]

\* totalAllocated: newCategories.filter(c => c.id !== 'savings').reduce(sum)
TotalAllocated(categories) ==
    LET F[i \in 0..Len(categories)] ==
            IF i = 0 THEN 0
            ELSE F[i - 1] + (IF categories[i].id # "savings" THEN categories[i].amount ELSE 0)
    IN  F[Len(categories)]

\* The residual without its floor at zero.
SavingsUnclamped(income, totalAllocated) == income - totalAllocated

\* savings = Math.max(0, income - totalAllocated)
Savings(income, totalAllocated) == Max(0, income - totalAllocated)

\* A mutation of newCategories: the savings residual is taken against every expense
\* that is not filed under savings, whatever its categoryId.
NewCategoriesAllocatingAll(allExpensesInCycle, income) ==
    LET Summed(expenses) ==
            [i \in DOMAIN INITIAL_CATEGORIES |->
                [id |-> INITIAL_CATEGORIES[i],
                 amount |-> CategoryAmount(expenses, INITIAL_CATEGORIES[i])]]
        Spent(expenses) ==
            SumSeq([i \in DOMAIN expenses |->
                       IF expenses[i].categoryId # "savings" THEN expenses[i].amount ELSE 0])
        Overwrite(summed, savings) ==
            [i \in DOMAIN summed |->
                IF summed[i].id = "savings" THEN [summed[i] EXCEPT !.amount = savings]
                ELSE summed[i]]
        WithSavings(expenses) == Overwrite(Summed(expenses), Savings(income, Spent(expenses)))
    IN  WithSavings(Flat(allExpensesInCycle, SeqOfSet(DOMAIN allExpensesInCycle)))

\* newCategories with the savings entry overwritten.
NewCategories(allExpensesInCycle, income) ==
    LET Summed(expenses) ==
            [i \in DOMAIN INITIAL_CATEGORIES |->
                [id |-> INITIAL_CATEGORIES[i],
                 amount |-> CategoryAmount(expenses, INITIAL_CATEGORIES[i])]]
        Overwrite(summed, savings) ==
            [i \in DOMAIN summed |->
                IF summed[i].id = "savings" THEN [summed[i] EXCEPT !.amount = savings]
                ELSE summed[i]]
        WithSavings(summed) == Overwrite(summed, Savings(income, TotalAllocated(summed)))
    IN  WithSavings(Summed(Flat(allExpensesInCycle, SeqOfSet(DOMAIN allExpensesInCycle))))

\* id: Date.now().toString().  The clock value identifies the string.
TimestampIdSentinel(t) == <<"live-cycle-budget">>

TimestampId(t) == <<"ts", t.day, t.ms>>

\* handleSaveNewBudget: [...savedBudgets, { ...newBudgetData, id }]
SaveNewBudget(budgets, newBudgetData, t) ==
    Append(budgets, [id |-> TimestampId(t),
                     name |-> newBudgetData.name,
                     totalIncome |-> newBudgetData.totalIncome,
                     categories |-> newBudgetData.categories,
                     dateSaved |-> newBudgetData.dateSaved,
                     frequency |-> newBudgetData.frequency])

\* The record handleConfirmForceCreate hands to handleSaveNewBudget.
PartialBudget(config, daily, futures, ps, pe, t, offset) ==
    [name |-> <<"Presupuesto Parcial", DateKey(t)>>,
     totalIncome |-> config.income,
     categories |-> NewCategories(AllExpensesInCycle(daily, futures, ps, pe, offset),
                                  config.income),
     dateSaved |-> t,
     frequency |-> config.frequency]

-----------------------------------------------------------------------------
(* The effects: pure parts *)

LiveId == <<"live-cycle-budget">>

\* budgetCategories: each registry category with the amount found in
\* currentPeriodSpending, or 0.
LiveCategories(spending) ==
    [i \in DOMAIN INITIAL_CATEGORIES |->
        LET hits == {j \in DOMAIN spending : spending[j].category = INITIAL_CATEGORIES[i]}
        IN  [id |-> INITIAL_CATEGORIES[i],
             amount |-> IF hits = {} THEN 0
                        ELSE spending[CHOOSE j \in hits : \A k \in hits : j <= k].amount]]

\* The live budget effect's result for the rendered values.
LiveBudget(profiles, id, spending, ps, pe, t) ==
    LET Budget(cfg) ==
            IF cfg # Null /\ ps # Null /\ pe # Null
            THEN Some([id |-> LiveId,
                       name |-> <<"Presupuesto de Ciclo Actual", id>>,
                       totalIncome |-> cfg[1].income,
                       categories |-> LiveCategories(spending),
                       dateSaved |-> t,
                       frequency |-> cfg[1].frequency])
            ELSE Null
    IN  Budget(ActiveCycleConfigOf(profiles, id))

ProfileIdsOf(profiles) == {profiles[i].id : i \in DOMAIN profiles}

\* A cleanup that reports the orphans but keeps every entry.
CleanExpensesKeepingAll(allExpenses, profileIds) ==
    [cleaned |-> allExpenses,
     changed |-> \E k \in DOMAIN allExpenses : k \notin profileIds]

\* A cleanup that always reports a change.
CleanExpensesAlwaysChanged(allExpenses, profileIds) ==
    [cleaned |-> [k \in DOMAIN allExpenses \cap profileIds |-> allExpenses[k]],
     changed |-> TRUE]

\* A cleanup that takes every entry for an orphan.
CleanExpensesDroppingAll(allExpenses, profileIds) ==
    [cleaned |-> [k \in {} |-> allExpenses[k]],
     changed |-> DOMAIN allExpenses # {}]

\* cleanExpenses: the entries whose key is a profile id, and whether any was dropped.
CleanExpenses(allExpenses, profileIds) ==
    [cleaned |-> [k \in DOMAIN allExpenses \cap profileIds |-> allExpenses[k]],
     changed |-> \E k \in DOMAIN allExpenses : k \notin profileIds]

-----------------------------------------------------------------------------
(* The key-value store (src/storage.ts) behind KEYS.BUDGETS, KEYS.GLOBAL_SAVINGS,
   KEYS.CYCLE_PROFILES, KEYS.ACTIVE_CYCLE_ID, KEYS.ALL_DAILY and KEYS.ALL_FUTURE.  A set is applied when
   the effect that issues it runs: the store executes the requests in the order
   they are issued. *)

\* The user's data keys (KEYS.BUDGETS .. KEYS.ALL_FUTURE), by the name of their state.
StorageKeys ==
    {"budgets", "globalSavings", "cycleProfiles", "activeCycleId", "allDaily", "allFuture"}

\* keysToKeep: the keys that stay in localStorage.
KeysToKeep == {"currentUser", "lastUser", "theme", "users", "migrationComplete"}

\* Every key of the model: the data keys, the kept keys, a data key of another user
\* ('financial-organizer-<other>-budgets') and a key of another application.
StoreKeys == StorageKeys \cup KeysToKeep \cup {"otherUserBudgets", "unrelated"}

\* key.startsWith('financial-organizer-')
StartsWithPrefix(key) == key # "unrelated"

\* Nothing stored: a first start.
EmptyStorage == [key \in StoreKeys |-> Null]

\* What a previous session left: every collection set, the active cycle id set or
\* removed.
StorageHolding(budgets, profiles, id, daily, future) ==
    [key \in StoreKeys |->
        CASE key = "budgets" -> Some(budgets)
          [] key = "globalSavings" -> Some(0)
          [] key = "cycleProfiles" -> Some(profiles)
          [] key = "activeCycleId" -> IF id = NoCycle THEN Null ELSE Some(id)
          [] key = "allDaily" -> Some(daily)
          [] key = "allFuture" -> Some(future)
          [] OTHER -> Null]

\* A string held by localStorage: its text and, when JSON.parse accepts it, the value
\* it parses to (<<>> when JSON.parse throws).
Raw(text) == [text |-> text, json |-> Null]
Stringified(value) == [text |-> "json", json |-> Some(value)]
FlagTrue == [text |-> "true", json |-> Some(TRUE)]

\* A localStorage whose migration was completed by an earlier session.
MigratedLocalStorage ==
    [key \in StoreKeys |-> IF key = "migrationComplete" THEN Some(FlagTrue) ELSE Null]

\* A mutation of the loop: keysToKeep is not consulted.
KeysToMigrateKeepingNone(ls) ==
    {key \in DOMAIN ls : /\ StartsWithPrefix(key)
                         /\ ls[key] # Null
                         /\ ls[key][1].text # ""}

\* The loop over window.localStorage: the prefixed keys outside keysToKeep whose
\* value is a non-empty string.
KeysToMigrate(ls) ==
    {key \in DOMAIN ls : /\ StartsWithPrefix(key)
                         /\ key \notin KeysToKeep
                         /\ ls[key] # Null
                         /\ ls[key][1].text # ""}

\* keysToMigrate.forEach: store.put(JSON.parse(value), key), a value that does not
\* parse is skipped.
PutMigrated(store, ls) ==
    [key \in DOMAIN store |->
        IF key \in KeysToMigrate(ls) /\ ls[key][1].json # Null
        THEN Some(ls[key][1].json[1])
        ELSE store[key]]

\* window.localStorage.setItem(MIGRATION_KEY, 'true')
SetMigrationFlag(ls) == [ls EXCEPT !["migrationComplete"] = Some(FlagTrue)]

\* get(key) resolves to the stored value or null; the caller takes `sX || default`.
Stored(v, default) == IF v = Null THEN default ELSE v[1]

\* A mutation of the persistence effects: a null active cycle id is not removed.
PersistKeepingActiveCycleId(store, pending, loading, budgets, savings, profiles, id, daily, future) ==
    LET Runs(effect) == effect \in pending /\ ~loading
    IN  [key \in DOMAIN store |->
            CASE key = "budgets" /\ Runs("saveBudgets") -> Some(budgets)
              [] key = "globalSavings" /\ Runs("saveGlobalSavings") -> Some(savings)
              [] key = "cycleProfiles" /\ Runs("saveCycleProfiles") -> Some(profiles)
              [] key = "activeCycleId" /\ Runs("saveActiveCycleId") /\ id # NoCycle -> Some(id)
              [] key = "allDaily" /\ Runs("saveAllDaily") -> Some(daily)
              [] key = "allFuture" /\ Runs("saveAllFuture") -> Some(future)
              [] OTHER -> store[key]]

\* A mutation of the persistence effects: the test of isLoading is dropped.
PersistWhileLoading(store, pending, loading, budgets, savings, profiles, id, daily, future) ==
    LET Runs(effect) == effect \in pending
    IN  [key \in DOMAIN store |->
            CASE key = "budgets" /\ Runs("saveBudgets") -> Some(budgets)
              [] key = "globalSavings" /\ Runs("saveGlobalSavings") -> Some(savings)
              [] key = "cycleProfiles" /\ Runs("saveCycleProfiles") -> Some(profiles)
              [] key = "activeCycleId" /\ Runs("saveActiveCycleId") ->
                    IF id = NoCycle THEN Null ELSE Some(id)
              [] key = "allDaily" /\ Runs("saveAllDaily") -> Some(daily)
              [] key = "allFuture" /\ Runs("saveAllFuture") -> Some(future)
              [] OTHER -> store[key]]

\* The persistence effects: each writes its rendered value when it runs after
\* loading; the active cycle id is removed when null.
Persist(store, pending, loading, budgets, savings, profiles, id, daily, future) ==
    LET Runs(effect) == effect \in pending /\ ~loading
    IN  [key \in DOMAIN store |->
            CASE key = "budgets" /\ Runs("saveBudgets") -> Some(budgets)
              [] key = "globalSavings" /\ Runs("saveGlobalSavings") -> Some(savings)
              [] key = "cycleProfiles" /\ Runs("saveCycleProfiles") -> Some(profiles)
              [] key = "activeCycleId" /\ Runs("saveActiveCycleId") ->
                    IF id = NoCycle THEN Null ELSE Some(id)
              [] key = "allDaily" /\ Runs("saveAllDaily") -> Some(daily)
              [] key = "allFuture" /\ Runs("saveAllFuture") -> Some(future)
              [] OTHER -> store[key]]

-----------------------------------------------------------------------------
(* Rendering: which memo and which effects a commit invalidates *)

\* The dependency lists compare by identity; a state update that changes a value
\* creates a new object.  `allDailyExpenses[activeCycleId] || {}` is a new {} on every
\* evaluation when the active cycle has no entry.
MemoRecomputed ==
    \/ activeCycleId' # activeCycleId
    \/ ActiveCycleConfigOf(cycleProfiles', activeCycleId')
         # ActiveCycleConfigOf(cycleProfiles, activeCycleId)
    \/ CurrentDailyExpensesOf(allDailyExpenses', activeCycleId')
         # CurrentDailyExpensesOf(allDailyExpenses, activeCycleId)
    \/ /\ allDailyExpenses' # allDailyExpenses
       /\ (activeCycleId' = NoCycle \/ activeCycleId' \notin DOMAIN allDailyExpenses')

\* A mutation of the dependency lists: the select-first effect depends on
\* [activeCycleId, isLoading] only.
PendingEffectsWithoutProfilesDependency ==
    (IF activeCycleId' # activeCycleId \/ isLoading' # isLoading
     THEN {"selectFirst"} ELSE {})
    \cup
    (IF cycleProfiles' # cycleProfiles \/ isLoading' # isLoading
        \/ allDailyExpenses' # allDailyExpenses \/ allFutureExpenses' # allFutureExpenses
     THEN {"cleanup"} ELSE {})
    \cup
    (IF MemoRecomputed
        \/ ActiveCycleProfileOf(cycleProfiles', activeCycleId')
             # ActiveCycleProfileOf(cycleProfiles, activeCycleId)
     THEN {"liveBudget"} ELSE {})
    \cup
    (IF savedBudgets' # savedBudgets \/ isLoading' # isLoading
     THEN {"saveBudgets"} ELSE {})
    \cup
    (IF globalSavings' # globalSavings \/ isLoading' # isLoading
     THEN {"saveGlobalSavings"} ELSE {})
    \cup
    (IF cycleProfiles' # cycleProfiles \/ isLoading' # isLoading
     THEN {"saveCycleProfiles"} ELSE {})
    \cup
    (IF activeCycleId' # activeCycleId \/ isLoading' # isLoading
     THEN {"saveActiveCycleId"} ELSE {})
    \cup
    (IF allDailyExpenses' # allDailyExpenses \/ isLoading' # isLoading
     THEN {"saveAllDaily"} ELSE {})
    \cup
    (IF allFutureExpenses' # allFutureExpenses \/ isLoading' # isLoading
     THEN {"saveAllFuture"} ELSE {})

\* The effects whose dependency list changed in this commit.
PendingEffects ==
    (IF cycleProfiles' # cycleProfiles \/ activeCycleId' # activeCycleId
        \/ isLoading' # isLoading
     THEN {"selectFirst"} ELSE {})
    \cup
    (IF cycleProfiles' # cycleProfiles \/ isLoading' # isLoading
        \/ allDailyExpenses' # allDailyExpenses \/ allFutureExpenses' # allFutureExpenses
     THEN {"cleanup"} ELSE {})
    \cup
    (IF MemoRecomputed
        \/ ActiveCycleProfileOf(cycleProfiles', activeCycleId')
             # ActiveCycleProfileOf(cycleProfiles, activeCycleId)
     THEN {"liveBudget"} ELSE {})
    \cup
    (IF savedBudgets' # savedBudgets \/ isLoading' # isLoading
     THEN {"saveBudgets"} ELSE {})
    \cup
    (IF globalSavings' # globalSavings \/ isLoading' # isLoading
     THEN {"saveGlobalSavings"} ELSE {})
    \cup
    (IF cycleProfiles' # cycleProfiles \/ isLoading' # isLoading
     THEN {"saveCycleProfiles"} ELSE {})
    \cup
    (IF activeCycleId' # activeCycleId \/ isLoading' # isLoading
     THEN {"saveActiveCycleId"} ELSE {})
    \cup
    (IF allDailyExpenses' # allDailyExpenses \/ isLoading' # isLoading
     THEN {"saveAllDaily"} ELSE {})
    \cup
    (IF allFutureExpenses' # allFutureExpenses \/ isLoading' # isLoading
     THEN {"saveAllFuture"} ELSE {})

\* The render after a state update: the period memo is re-evaluated (reading the
\* clock) only when one of its dependencies changed.
Render ==
    /\ LET Set(m) == /\ periodStartDate' = m.periodStartDate
                     /\ periodEndDate' = m.periodEndDate
                     /\ currentPeriodSpending' = m.currentPeriodSpending
       IN  IF MemoRecomputed
           THEN Set(PeriodMemo(cycleProfiles', activeCycleId', allDailyExpenses', now'))
           ELSE UNCHANGED <<periodStartDate, periodEndDate, currentPeriodSpending>>
    /\ effectsPending' = PendingEffects

Handler(op, id) == [op |-> op, id |-> id, dailyChanged |-> FALSE, futureChanged |-> FALSE]

\* Handlers run once the effects of the previous commit have run.
Idle == effectsPending = {} /\ budgetUpdates = <<>>

\* The screen (and so every user handler) exists only after loading: if (isLoading) return null
Interactive == Idle /\ ~isLoading

-----------------------------------------------------------------------------
(* Actions *)
\* A mutation of loadInitialData: the daily expenses are taken from the all-future key
\* and the future expenses from the all-daily key.
LoadInitialDataSwapped(sBudgets, sCycleProfiles, sActiveCycleId, sAllDaily, sAllFuture) ==
    /\ Idle /\ isLoading /\ loadPc = "get"
    /\ savedBudgets' = sBudgets
    /\ globalSavings' = Stored(storage.globalSavings, 0)
    /\ cycleProfiles' = sCycleProfiles
    /\ activeCycleId' = sActiveCycleId
    /\ allDailyExpenses' = sAllFuture
    /\ allFutureExpenses' = sAllDaily
    /\ isLoading' = FALSE
    /\ last' = Handler("loadInitialData", NoCycle)
    /\ UNCHANGED <<localStorage, loadPc,
                   currentCycleBudget, isForceCreateModalOpen, now, tz,
                   storage, budgetToDelete, isDeleteModalOpen, budgetUpdates>>
    /\ Render

\* loadInitialData, the try block completing: every collection takes the stored
\* value (`sX || default`), then finally setIsLoading(false).
LoadInitialData(sBudgets, sCycleProfiles, sActiveCycleId, sAllDaily, sAllFuture) ==
    /\ Idle /\ isLoading /\ loadPc = "get"
    /\ savedBudgets' = sBudgets
    /\ globalSavings' = Stored(storage.globalSavings, 0)
    /\ cycleProfiles' = sCycleProfiles
    /\ activeCycleId' = sActiveCycleId
    /\ allDailyExpenses' = sAllDaily
    /\ allFutureExpenses' = sAllFuture
    /\ isLoading' = FALSE
    /\ last' = Handler("loadInitialData", NoCycle)
    /\ UNCHANGED <<localStorage, loadPc,
                   currentCycleBudget, isForceCreateModalOpen, now, tz,
                   storage, budgetToDelete, isDeleteModalOpen, budgetUpdates>>
    /\ Render

\* loadInitialData reading the store, every get resolving.
LoadFromStorage ==
    LoadInitialData(Stored(storage.budgets, <<>>), Stored(storage.cycleProfiles, <<>>),
                    Stored(storage.activeCycleId, NoCycle), Stored(storage.allDaily, EmptyMap),
                    Stored(storage.allFuture, EmptyMap))

\* loadInitialData, the catch block: nothing is set, then finally setIsLoading(false).
LoadInitialDataFailed ==
    /\ Idle /\ isLoading /\ loadPc = "get"
    /\ isLoading' = FALSE
    /\ last' = Handler("loadInitialDataFailed", NoCycle)
    /\ UNCHANGED <<globalSavings, localStorage, loadPc,
                   savedBudgets, cycleProfiles, activeCycleId, allDailyExpenses,
                   allFutureExpenses, currentCycleBudget, isForceCreateModalOpen, now, tz,
                   storage, budgetToDelete, isDeleteModalOpen, budgetUpdates>>
    /\ Render

\* loadInitialData when the get of one key rejects: Promise.all rejects, the catch
\* block logs, nothing is set, then finally setIsLoading(false).
LoadInitialDataGetRejected(key) ==
    /\ Idle /\ isLoading /\ loadPc = "get"
    /\ isLoading' = FALSE
    /\ last' = Handler("loadInitialDataGetRejected", key)
    /\ UNCHANGED <<globalSavings, localStorage, loadPc,
                   savedBudgets, cycleProfiles, activeCycleId, allDailyExpenses,
                   allFutureExpenses, currentCycleBudget, isForceCreateModalOpen, now, tz,
                   storage, budgetToDelete, isDeleteModalOpen, budgetUpdates>>
    /\ Render

\* The setter calls of loadInitialData, in source order.
LoadSetters ==
    <<"budgets", "globalSavings", "cycleProfiles", "activeCycleId", "allDaily", "allFuture">>

\* loadInitialData when the updates it makes after the await are not batched: each
\* setter call commits on its own, in source order, and the effects of a commit run
\* before the next one.  loadPc names the setter that committed last.
LoadCommit ==
    /\ Idle /\ isLoading
    /\ \E i \in DOMAIN LoadSetters :
          /\ loadPc = (IF i = 1 THEN "get" ELSE LoadSetters[i - 1])
          /\ loadPc' = LoadSetters[i]
          /\ savedBudgets' = IF i = 1 THEN Stored(storage.budgets, <<>>) ELSE savedBudgets
          /\ globalSavings' = IF i = 2 THEN Stored(storage.globalSavings, 0) ELSE globalSavings
          /\ cycleProfiles' = IF i = 3 THEN Stored(storage.cycleProfiles, <<>>)
                              ELSE cycleProfiles
          /\ activeCycleId' = IF i = 4 THEN Stored(storage.activeCycleId, NoCycle)
                              ELSE activeCycleId
          /\ allDailyExpenses' = IF i = 5 THEN Stored(storage.allDaily, EmptyMap)
                                 ELSE allDailyExpenses
          /\ allFutureExpenses' = IF i = 6 THEN Stored(storage.allFuture, EmptyMap)
                                  ELSE allFutureExpenses
          /\ last' = Handler("loadInitialDataCommit", LoadSetters[i])
    /\ UNCHANGED <<isLoading, currentCycleBudget, isForceCreateModalOpen, now, tz, storage,
                   budgetToDelete, isDeleteModalOpen, budgetUpdates, localStorage>>
    /\ Render

\* finally { setIsLoading(false) } committing after the six setters.
LoadCommitFinally ==
    /\ Idle /\ isLoading
    /\ loadPc = LoadSetters[Len(LoadSetters)]
    /\ loadPc' = "loaded"
    /\ isLoading' = FALSE
    /\ last' = Handler("loadInitialData", NoCycle)
    /\ UNCHANGED <<cycleProfiles, activeCycleId, allDailyExpenses, allFutureExpenses,
                   savedBudgets, globalSavings, currentCycleBudget, isForceCreateModalOpen,
                   now, tz, storage, budgetToDelete, isDeleteModalOpen, budgetUpdates,
                   localStorage>>
    /\ Render

\* migrateFromLocalStorage, awaited by loadInitialData before its reads.  completes
\* tells whether the write transaction completes (oncomplete) or fails (onerror, or
\* the database cannot be opened); a failed transaction writes nothing and the catch
\* block logs.
MigrateFromLocalStorage(completes) ==
    /\ Idle /\ isLoading /\ loadPc = "migrate"
    /\ IF localStorage["migrationComplete"] = Some(FlagTrue)
       THEN /\ UNCHANGED <<localStorage, storage>>
            /\ last' = Handler("migrateFromLocalStorage", "alreadyComplete")
       ELSE IF KeysToMigrate(localStorage) = {}
       THEN /\ localStorage' = SetMigrationFlag(localStorage)
            /\ UNCHANGED storage
            /\ last' = Handler("migrateFromLocalStorage", "nothingToMigrate")
       ELSE IF completes
       THEN /\ storage' = PutMigrated(storage, localStorage)
            /\ localStorage' = SetMigrationFlag(localStorage)
            /\ last' = Handler("migrateFromLocalStorage", "migrated")
       ELSE /\ UNCHANGED <<localStorage, storage>>
            /\ last' = Handler("migrateFromLocalStorage", "failed")
    /\ loadPc' = "get"
    /\ UNCHANGED <<isLoading, cycleProfiles, activeCycleId, allDailyExpenses, allFutureExpenses,
                   savedBudgets, currentCycleBudget, periodStartDate, periodEndDate,
                   currentPeriodSpending, isForceCreateModalOpen, now, tz, effectsPending,
                   budgetToDelete, isDeleteModalOpen, budgetUpdates, globalSavings>>

\* onUpdateGlobalSavings={setGlobalSavings} from the budget history view.
SetGlobalSavings(amount) ==
    /\ Interactive
    /\ globalSavings' = amount
    /\ last' = Handler("setGlobalSavings", activeCycleId)
    /\ UNCHANGED <<isLoading, cycleProfiles, activeCycleId, allDailyExpenses, allFutureExpenses,
                   savedBudgets, currentCycleBudget, isForceCreateModalOpen, now, tz,
                   storage, budgetToDelete, isDeleteModalOpen, budgetUpdates,
                   localStorage, loadPc>>
    /\ Render

\* The effects of the last commit, in source order, each reading the rendered values;
\* their state updates are applied together and rendered.
RunEffects ==
    /\ effectsPending # {}
    /\ LET SelectFirst(run) ==
               activeCycleId' = IF run THEN cycleProfiles[1].id ELSE activeCycleId
           Cleanup(run, daily, future) ==
               /\ allDailyExpenses' = IF run /\ daily.changed THEN daily.cleaned
                                      ELSE allDailyExpenses
               /\ allFutureExpenses' = IF run /\ future.changed THEN future.cleaned
                                       ELSE allFutureExpenses
               /\ last' = IF run
                          THEN [last EXCEPT !.dailyChanged = daily.changed,
                                            !.futureChanged = future.changed]
                          ELSE last
       IN  /\ SelectFirst("selectFirst" \in effectsPending /\ ~isLoading
                          /\ activeCycleId = NoCycle /\ Len(cycleProfiles) > 0)
           /\ Cleanup("cleanup" \in effectsPending /\ ~isLoading,
                      CleanExpenses(allDailyExpenses, ProfileIdsOf(cycleProfiles)),
                      CleanExpenses(allFutureExpenses, ProfileIdsOf(cycleProfiles)))
    /\ currentCycleBudget' =
          IF "liveBudget" \in effectsPending
          THEN LiveBudget(cycleProfiles, activeCycleId, currentPeriodSpending,
                          periodStartDate, periodEndDate, now)
          ELSE currentCycleBudget
    /\ storage' = Persist(storage, effectsPending, isLoading, savedBudgets, globalSavings,
                          cycleProfiles, activeCycleId, allDailyExpenses, allFutureExpenses)
    /\ UNCHANGED <<globalSavings, localStorage, loadPc,
                   isLoading, cycleProfiles, savedBudgets, isForceCreateModalOpen, now, tz,
                   budgetToDelete, isDeleteModalOpen, budgetUpdates>>
    /\ Render

\* setCycleProfiles(prev => [...prev, profile]) from the expenses view.
AddCycleProfile(profile) ==
    /\ Interactive
    /\ profile.id \notin ProfileIdsOf(cycleProfiles)
    /\ cycleProfiles' = Append(cycleProfiles, profile)
    /\ last' = Handler("addCycleProfile", profile.id)
    /\ UNCHANGED <<globalSavings, localStorage, loadPc,
                   isLoading, activeCycleId, allDailyExpenses, allFutureExpenses, savedBudgets,
                   currentCycleBudget, isForceCreateModalOpen, now, tz,
                   storage, budgetToDelete, isDeleteModalOpen, budgetUpdates>>
    /\ Render

\* setCycleProfiles(prev => prev.filter(p => p.id !== id)) from the expenses view.
RemoveCycleProfile(id) ==
    /\ Interactive
    /\ id \in ProfileIdsOf(cycleProfiles)
    /\ cycleProfiles' = SelectSeq(cycleProfiles, LAMBDA p : p.id # id)
    /\ last' = Handler("removeCycleProfile", id)
    /\ UNCHANGED <<globalSavings, localStorage, loadPc,
                   isLoading, activeCycleId, allDailyExpenses, allFutureExpenses, savedBudgets,
                   currentCycleBudget, isForceCreateModalOpen, now, tz,
                   storage, budgetToDelete, isDeleteModalOpen, budgetUpdates>>
    /\ Render

\* setActiveCycleId(id) from the expenses view.
SetActiveCycleId(id) ==
    /\ Interactive
    /\ id # activeCycleId
    /\ activeCycleId' = id
    /\ last' = Handler("setActiveCycleId", id)
    /\ UNCHANGED <<globalSavings, localStorage, loadPc,
                   isLoading, cycleProfiles, allDailyExpenses, allFutureExpenses, savedBudgets,
                   currentCycleBudget, isForceCreateModalOpen, now, tz,
                   storage, budgetToDelete, isDeleteModalOpen, budgetUpdates>>
    /\ Render

\* A mutation of setCurrentDailyExpenses: ({ [activeCycleId]: ... }) without ...prev
SetCurrentDailyExpensesDroppingOthers(dateStr, exp) ==
    /\ Interactive
    /\ allDailyExpenses' =
          IF activeCycleId = NoCycle THEN allDailyExpenses
          ELSE LET Old(prev) == IF dateStr \in DOMAIN prev THEN prev[dateStr] ELSE <<>>
                   New(prev) == [d \in DOMAIN prev \cup {dateStr} |->
                                    IF d = dateStr THEN Append(Old(prev), exp) ELSE prev[d]]
                   Put(new) == [k \in {activeCycleId} |-> new]
               IN  Put(New(CurrentDailyExpensesOf(allDailyExpenses, activeCycleId)))
    /\ last' = Handler("setCurrentDailyExpenses", activeCycleId)
    /\ UNCHANGED <<globalSavings, localStorage, loadPc,
                   isLoading, cycleProfiles, activeCycleId, allFutureExpenses, savedBudgets,
                   currentCycleBudget, isForceCreateModalOpen, now, tz,
                   storage, budgetToDelete, isDeleteModalOpen, budgetUpdates>>
    /\ Render

\* setCurrentDailyExpenses(prev => ({...prev, [dateStr]: [...(prev[dateStr] || []), exp]})):
\* setAllDailyExpenses(prev => ({ ...prev, [activeCycleId]: f(prev[activeCycleId] || {}) }))
\* when activeCycleId is set, nothing otherwise.
SetCurrentDailyExpenses(dateStr, exp) ==
    /\ Interactive
    /\ allDailyExpenses' =
          IF activeCycleId = NoCycle THEN allDailyExpenses
          ELSE LET Old(prev) == IF dateStr \in DOMAIN prev THEN prev[dateStr] ELSE <<>>
                   New(prev) == [d \in DOMAIN prev \cup {dateStr} |->
                                    IF d = dateStr THEN Append(Old(prev), exp) ELSE prev[d]]
                   Put(new) == [k \in DOMAIN allDailyExpenses \cup {activeCycleId} |->
                                   IF k = activeCycleId THEN new ELSE allDailyExpenses[k]]
               IN  Put(New(CurrentDailyExpensesOf(allDailyExpenses, activeCycleId)))
    /\ last' = Handler("setCurrentDailyExpenses", activeCycleId)
    /\ UNCHANGED <<globalSavings, localStorage, loadPc,
                   isLoading, cycleProfiles, activeCycleId, allFutureExpenses, savedBudgets,
                   currentCycleBudget, isForceCreateModalOpen, now, tz,
                   storage, budgetToDelete, isDeleteModalOpen, budgetUpdates>>
    /\ Render

\* setCurrentFutureExpenses(prev => [...prev, fe]), the same way.
SetCurrentFutureExpenses(fe) ==
    /\ Interactive
    /\ allFutureExpenses' =
          IF activeCycleId = NoCycle THEN allFutureExpenses
          ELSE LET Put(new) == [k \in DOMAIN allFutureExpenses \cup {activeCycleId} |->
                                   IF k = activeCycleId THEN new ELSE allFutureExpenses[k]]
               IN  Put(Append(CurrentFutureExpensesOf(allFutureExpenses, activeCycleId), fe))
    /\ last' = Handler("setCurrentFutureExpenses", activeCycleId)
    /\ UNCHANGED <<globalSavings, localStorage, loadPc,
                   isLoading, cycleProfiles, activeCycleId, allDailyExpenses, savedBudgets,
                   currentCycleBudget, isForceCreateModalOpen, now, tz,
                   storage, budgetToDelete, isDeleteModalOpen, budgetUpdates>>
    /\ Render

\* handleForceCreateBudget: opens the confirmation modal when there is a period,
\* alerts otherwise.
HandleForceCreateBudgetUnguarded ==
    /\ Interactive
    /\ ~isForceCreateModalOpen
    /\ isForceCreateModalOpen' = TRUE
    /\ last' = Handler("handleForceCreateBudget", activeCycleId)
    /\ UNCHANGED <<globalSavings, localStorage, loadPc,
                   isLoading, cycleProfiles, activeCycleId, allDailyExpenses, allFutureExpenses,
                   savedBudgets, currentCycleBudget, now, tz,
                   storage, budgetToDelete, isDeleteModalOpen, budgetUpdates>>
    /\ Render

HandleForceCreateBudget ==
    /\ Interactive
    /\ ~isForceCreateModalOpen
    /\ isForceCreateModalOpen' = (periodStartDate # Null /\ periodEndDate # Null)
    /\ last' = Handler("handleForceCreateBudget", activeCycleId)
    /\ UNCHANGED <<globalSavings, localStorage, loadPc,
                   isLoading, cycleProfiles, activeCycleId, allDailyExpenses, allFutureExpenses,
                   savedBudgets, currentCycleBudget, now, tz,
                   storage, budgetToDelete, isDeleteModalOpen, budgetUpdates>>
    /\ Render

\* The modal's onClose.
CloseForceCreateModal ==
    /\ Interactive
    /\ isForceCreateModalOpen
    /\ isForceCreateModalOpen' = FALSE
    /\ last' = Handler("closeForceCreateModal", activeCycleId)
    /\ UNCHANGED <<globalSavings, localStorage, loadPc,
                   isLoading, cycleProfiles, activeCycleId, allDailyExpenses, allFutureExpenses,
                   savedBudgets, currentCycleBudget, now, tz,
                   storage, budgetToDelete, isDeleteModalOpen, budgetUpdates>>
    /\ Render

\* A mutation of handleConfirmForceCreate: allExpensesInCycle is written back as the
\* daily expenses of the active cycle.
HandleConfirmForceCreateStoringMaterialized ==
    /\ Interactive
    /\ isForceCreateModalOpen
    /\ LET Confirm(cfg) ==
              IF cfg # Null /\ periodStartDate # Null /\ periodEndDate # Null
              THEN SaveNewBudget(savedBudgets,
                                 PartialBudget(cfg[1],
                                               CurrentDailyExpensesOf(allDailyExpenses, activeCycleId),
                                               CurrentFutureExpensesOf(allFutureExpenses, activeCycleId),
                                               periodStartDate[1], periodEndDate[1], now, tz),
                                 now)
              ELSE savedBudgets
       IN  savedBudgets' = Confirm(ActiveCycleConfigOf(cycleProfiles, activeCycleId))
    /\ last' = Handler("handleConfirmForceCreate", activeCycleId)
    /\ allDailyExpenses' =
          IF ActiveCycleConfigOf(cycleProfiles, activeCycleId) # Null
             /\ periodStartDate # Null /\ periodEndDate # Null
          THEN [c \in DOMAIN allDailyExpenses \cup {activeCycleId} |->
                   IF c = activeCycleId
                   THEN AllExpensesInCycle(CurrentDailyExpensesOf(allDailyExpenses, activeCycleId),
                                           CurrentFutureExpensesOf(allFutureExpenses, activeCycleId),
                                           periodStartDate[1], periodEndDate[1], tz)
                   ELSE allDailyExpenses[c]]
          ELSE allDailyExpenses
    /\ UNCHANGED <<globalSavings, localStorage, loadPc,
                   isLoading, cycleProfiles, activeCycleId, allFutureExpenses,
                   currentCycleBudget, isForceCreateModalOpen, now, tz,
                   storage, budgetToDelete, isDeleteModalOpen, budgetUpdates>>
    /\ Render

\* handleConfirmForceCreate, the modal's onConfirm.
HandleConfirmForceCreate ==
    /\ Interactive
    /\ isForceCreateModalOpen
    /\ LET Confirm(cfg) ==
              IF cfg # Null /\ periodStartDate # Null /\ periodEndDate # Null
              THEN SaveNewBudget(savedBudgets,
                                 PartialBudget(cfg[1],
                                               CurrentDailyExpensesOf(allDailyExpenses, activeCycleId),
                                               CurrentFutureExpensesOf(allFutureExpenses, activeCycleId),
                                               periodStartDate[1], periodEndDate[1], now, tz),
                                 now)
              ELSE savedBudgets
       IN  savedBudgets' = Confirm(ActiveCycleConfigOf(cycleProfiles, activeCycleId))
    /\ last' = Handler("handleConfirmForceCreate", activeCycleId)
    /\ UNCHANGED <<globalSavings, localStorage, loadPc,
                   isLoading, cycleProfiles, activeCycleId, allDailyExpenses, allFutureExpenses,
                   currentCycleBudget, isForceCreateModalOpen, now, tz,
                   storage, budgetToDelete, isDeleteModalOpen, budgetUpdates>>
    /\ Render

-----------------------------------------------------------------------------
(* The budget handlers.  A handler called while updates of the same render cycle are
   still queued reads savedBudgets (and budgetToDelete) as last rendered: the handlers
   close over the rendered values.  setSavedBudgets(value) queues a replacement,
   setSavedBudgets(prev => ...) queues a function of the value left by the updates
   queued before it. *)

\* The handlers of the rendered screen can be called: the screen exists and the effects
\* of its commit have run.
Rendered == effectsPending = {} /\ ~isLoading

\* A queued setSavedBudgets call.  op and arg record which handler queued it and with
\* what; set tells a replacement (budgets is the new value) from the functional
\* update of handleUpdateBudget (budgets is <<updatedBudget>>).
Update(op, set, budgets, arg) == [op |-> op, set |-> set, budgets |-> budgets, arg |-> arg]

\* prev.map(b => b.id === updatedBudget.id ? updatedBudget : b)
MapUpdated(prev, updatedBudget) ==
    [i \in DOMAIN prev |-> IF prev[i].id = updatedBudget.id THEN updatedBudget ELSE prev[i]]

\* savedBudgets.filter(b => b.id !== budgetToDelete.id)
FilterDeleted(budgets, deleted) ==
    SelectSeq(budgets, LAMBDA b : b.id # deleted.id)

\* The queue processed at the next render, first call first.
RECURSIVE ApplyUpdates(_, _)
ApplyUpdates(budgets, queue) ==
    IF queue = <<>> THEN budgets
    ELSE ApplyUpdates(IF Head(queue).set THEN Head(queue).budgets
                      ELSE MapUpdated(budgets, Head(queue).budgets[1]),
                      Tail(queue))

\* handleSaveNewBudget, the editor's onSave.
HandleSaveNewBudget(newBudgetData) ==
    /\ Rendered
    /\ budgetUpdates' = Append(budgetUpdates,
                               Update("handleSaveNewBudget", TRUE,
                                      SaveNewBudget(savedBudgets, newBudgetData, now),
                                      Last(SaveNewBudget(savedBudgets, newBudgetData, now))))
    /\ last' = Handler("handleSaveNewBudget", activeCycleId)
    /\ UNCHANGED <<globalSavings, localStorage, loadPc,
                   isLoading, cycleProfiles, activeCycleId, allDailyExpenses, allFutureExpenses,
                   savedBudgets, currentCycleBudget, isForceCreateModalOpen, now, tz,
                   storage, budgetToDelete, isDeleteModalOpen>>
    /\ Render

\* handleUpdateBudget, the editor's onUpdate.
HandleUpdateBudget(updatedBudget) ==
    /\ Rendered
    /\ budgetUpdates' = Append(budgetUpdates,
                               Update("handleUpdateBudget", FALSE, <<updatedBudget>>,
                                      updatedBudget))
    /\ last' = Handler("handleUpdateBudget", activeCycleId)
    /\ UNCHANGED <<globalSavings, localStorage, loadPc,
                   isLoading, cycleProfiles, activeCycleId, allDailyExpenses, allFutureExpenses,
                   savedBudgets, currentCycleBudget, isForceCreateModalOpen, now, tz,
                   storage, budgetToDelete, isDeleteModalOpen>>
    /\ Render

\* openDeleteModal, called from the history list with one of the listed budgets.
OpenDeleteModal(budget) ==
    /\ Interactive
    /\ budgetToDelete' = Some(budget)
    /\ isDeleteModalOpen' = TRUE
    /\ last' = Handler("openDeleteModal", activeCycleId)
    /\ UNCHANGED <<globalSavings, localStorage, loadPc,
                   isLoading, cycleProfiles, activeCycleId, allDailyExpenses, allFutureExpenses,
                   savedBudgets, currentCycleBudget, isForceCreateModalOpen, now, tz,
                   storage, budgetUpdates>>
    /\ Render

\* The delete modal's onClose: () => setIsDeleteModalOpen(false)
CloseDeleteModal ==
    /\ Interactive
    /\ budgetToDelete # Null /\ isDeleteModalOpen
    /\ isDeleteModalOpen' = FALSE
    /\ last' = Handler("closeDeleteModal", activeCycleId)
    /\ UNCHANGED <<globalSavings, localStorage, loadPc,
                   isLoading, cycleProfiles, activeCycleId, allDailyExpenses, allFutureExpenses,
                   savedBudgets, currentCycleBudget, isForceCreateModalOpen, now, tz,
                   storage, budgetToDelete, budgetUpdates>>
    /\ Render

\* handleConfirmDelete, the delete modal's onConfirm; the modal is rendered while
\* budgetToDelete is set.
HandleConfirmDelete ==
    /\ Rendered
    /\ budgetToDelete # Null /\ isDeleteModalOpen
    /\ budgetUpdates' = Append(budgetUpdates,
                               Update("handleConfirmDelete", TRUE,
                                      FilterDeleted(savedBudgets, budgetToDelete[1]),
                                      budgetToDelete[1]))
    /\ isDeleteModalOpen' = FALSE
    /\ budgetToDelete' = Null
    /\ last' = Handler("handleConfirmDelete", activeCycleId)
    /\ UNCHANGED <<globalSavings, localStorage, loadPc,
                   isLoading, cycleProfiles, activeCycleId, allDailyExpenses, allFutureExpenses,
                   savedBudgets, currentCycleBudget, isForceCreateModalOpen, now, tz, storage>>
    /\ Render

\* The render that ends the cycle: the queued updates are applied in call order.
FlushBudgetUpdates ==
    /\ effectsPending = {}
    /\ budgetUpdates # <<>>
    /\ savedBudgets' = ApplyUpdates(savedBudgets, budgetUpdates)
    /\ budgetUpdates' = <<>>
    /\ last' = Handler("render", activeCycleId)
    /\ UNCHANGED <<globalSavings, localStorage, loadPc,
                   isLoading, cycleProfiles, activeCycleId, allDailyExpenses, allFutureExpenses,
                   currentCycleBudget, isForceCreateModalOpen, now, tz,
                   storage, budgetToDelete, isDeleteModalOpen>>
    /\ Render

\* Time passes: the clock moves to a later value.
Tick(t) ==
    /\ Idle
    /\ Lt(now, t)
    /\ now' = t
    /\ UNCHANGED <<globalSavings, localStorage, loadPc,
                   isLoading, cycleProfiles, activeCycleId, allDailyExpenses, allFutureExpenses,
                   savedBudgets, currentCycleBudget, periodStartDate, periodEndDate,
                   currentPeriodSpending, isForceCreateModalOpen, tz, effectsPending, last,
                   storage, budgetToDelete, isDeleteModalOpen, budgetUpdates>>

-----------------------------------------------------------------------------
(* Inputs and bounds *)

MaxDaily == 2      \* expenses logged in one cycle
MaxFuture == 1     \* future expenses planned in one cycle
MaxBudgets == 1    \* saved budgets

Hour == 60 * 60 * 1000

D(y, m, d) == [y |-> y, m |-> m, d |-> d]

Frequencies == {"semanal", "quincenal", "mensual", "anual"}

Profile(id, startDate, frequency, income) ==
    [id |-> id, config |-> [startDate |-> startDate, frequency |-> frequency, income |-> income]]

Expense(categoryId, amount) == [id |-> <<"expense">>, amount |-> amount, categoryId |-> categoryId]

Future(id, categoryId, amount, startDate, endDate, frequency) ==
    [id |-> id, amount |-> amount, categoryId |-> categoryId, startDate |-> startDate,
     endDate |-> endDate, frequency |-> frequency]

DateLte(a, b) == DaysFromCivil(a.y, a.m, a.d) <= DaysFromCivil(b.y, b.m, b.d)

RECURSIVE CountExpenses(_, _)
CountExpenses(daily, keys) ==
    IF keys = {} THEN 0
    ELSE LET k == CHOOSE k \in keys : TRUE
         IN  Len(daily[k]) + CountExpenses(daily, keys \ {k})

\* Room left under the bounds for one more logged / planned expense / saved budget.
RoomForDaily ==
    LET Count(daily) == CountExpenses(daily, DOMAIN daily)
    IN  Count(CurrentDailyExpensesOf(allDailyExpenses, activeCycleId)) < MaxDaily
RoomForFuture == Len(CurrentFutureExpensesOf(allFutureExpenses, activeCycleId)) < MaxFuture
RoomForBudget == Len(savedBudgets) < MaxBudgets

\* The local UTC offsets: west and east of Greenwich.
TzOffsets == {-5 * Hour, Hour}

\* Clock values: a midday, the first millisecond of a day, the last millisecond of a
\* month, and a morning two months on.
NowValues == {ParseLocal(D(2024, 1, 15), Midday),
              ParseLocal(D(2024, 1, 22), Midnight),
              ParseLocal(D(2024, 1, 31), MsPerDay - 1),
              ParseLocal(D(2024, 3, 1), 8 * Hour)}

\* The state after construction: loading, every collection at its useState default.
Constructed(nows, offsets) ==
    /\ isLoading = TRUE
    /\ cycleProfiles = <<>>
    /\ activeCycleId = NoCycle
    /\ allDailyExpenses = EmptyMap
    /\ allFutureExpenses = EmptyMap
    /\ savedBudgets = <<>>
    /\ currentCycleBudget = Null
    /\ periodStartDate = Null
    /\ periodEndDate = Null
    /\ currentPeriodSpending = <<>>
    /\ isForceCreateModalOpen = FALSE
    /\ now \in nows
    /\ tz \in offsets
    /\ last = Handler("mount", NoCycle)
    /\ budgetToDelete = Null
    /\ isDeleteModalOpen = FALSE
    /\ budgetUpdates = <<>>
    /\ globalSavings = 0

\* The state after construction and the mount effects, the migration completed by an
\* earlier session: migrateFromLocalStorage returns at its first test and
\* loadInitialData awaits the six reads.
InitWith(nows, offsets) ==
    /\ Constructed(nows, offsets)
    /\ effectsPending = {}
    /\ localStorage = MigratedLocalStorage
    /\ loadPc = "get"

-----------------------------------------------------------------------------
(* SpecPeriod: period resolution and in-period spending, the clock held fixed *)

PeriodStartDates == {D(2023, 1, 31), D(2024, 1, 1), D(2024, 1, 22),
                     D(2024, 2, 29)}

PeriodProfiles == {Profile("p1", sd, f, 1000) : sd \in PeriodStartDates, f \in Frequencies}

PeriodDates == {D(2024, 1, 5), D(2024, 1, 22), D(2024, 2, 1)}

PeriodExpenses == {Expense("food", 50), Expense("food", 20), Expense("transport", -5),
                   Expense("other", 20)}

InitPeriod ==
    /\ InitWith(NowValues, {0})
    /\ storage \in {StorageHolding(<<>>, <<p>>, p.id, EmptyMap, EmptyMap) : p \in PeriodProfiles}

NextPeriod ==
    \/ LoadFromStorage
    \/ LoadInitialDataFailed
    \/ RunEffects
    \/ \E dateStr \in PeriodDates, exp \in PeriodExpenses :
          RoomForDaily /\ SetCurrentDailyExpenses(dateStr, exp)

SpecPeriod == InitPeriod /\ [][NextPeriod]_vars

-----------------------------------------------------------------------------
(* Force-creating a partial budget: one profile whose cycle started on 2024-01-01,
   the clock at 2024-01-15 12:00, every timezone offset; expenses are logged and
   planned, the modal is opened and confirmed. *)

ForceFrequencies == {"semanal", "mensual"}

ForceProfiles == {Profile("p1", D(2024, 1, 1), f, 1000) : f \in ForceFrequencies}

ForceDates == {D(2024, 1, 15), D(2024, 2, 1)}

ForceExpenses == {Expense("food", 50), Expense("transport", 700), Expense("savings", 40)}

ForceFutures ==
    { Future("f1", "food", 100, D(2024, 1, 1), Null, "semanal"),
      Future("f2", "food", 100, D(2024, 1, 1), Some(D(2024, 1, 22)), "semanal"),
      Future("f3", "food", 50, D(2024, 1, 25), Null, "una-vez"),
      Future("f4", "transport", 30, D(2024, 1, 15), Some(D(2024, 1, 15)), "una-vez") }

InitForce ==
    /\ InitWith({ParseLocal(D(2024, 1, 15), Midday)}, TzOffsets)
    /\ storage \in {StorageHolding(<<>>, <<p>>, p.id, EmptyMap, EmptyMap) : p \in ForceProfiles}

\* Expenses are logged and planned first; budgets are force-created afterwards.
NextForce ==
    \/ LoadFromStorage
    \/ RunEffects
    \/ \E dateStr \in ForceDates, exp \in ForceExpenses :
          RoomForDaily /\ savedBudgets = <<>> /\ SetCurrentDailyExpenses(dateStr, exp)
    \/ \E fe \in ForceFutures :
          RoomForFuture /\ savedBudgets = <<>> /\ SetCurrentFutureExpenses(fe)
    \/ HandleForceCreateBudget
    \/ CloseForceCreateModal
    \/ RoomForBudget /\ HandleConfirmForceCreate

SpecForce == InitForce /\ [][NextForce]_vars

-----------------------------------------------------------------------------
(* The application: two cycle profiles that are stored, added, selected and removed,
   expenses logged and planned in the active cycle, budgets force-created, and the
   clock moving on. *)

ProfileA == Profile("a", D(2024, 1, 1), "mensual", 1000)
ProfileB == Profile("b", D(2024, 1, 22), "semanal", 500)

Profiles == {ProfileA, ProfileB}

CycleIds == {p.id : p \in Profiles}

AppDate == D(2024, 1, 16)
AppExpense == Expense("food", 50)
AppFuture == Future("f1", "transport", 30, D(2024, 1, 15), Null, "una-vez")

\* What storage can hold at start-up: nothing, or the data of a previous session,
\* which may carry the entries of a cycle "x" whose profile is gone.
StoredProfiles == {<<>>, <<ProfileA>>, <<ProfileA, ProfileB>>}
StoredActiveCycleIds == {NoCycle, "a"}
StoredDaily == {EmptyMap,
                [k \in {"a", "x"} |-> [d \in {AppDate} |-> <<AppExpense>>]]}
StoredFuture == {EmptyMap,
                 [k \in {"b", "x"} |-> <<AppFuture>>]}

LaterNows == {ParseLocal(D(2024, 3, 1), 8 * Hour)}

Init ==
    /\ InitWith({ParseLocal(D(2024, 1, 15), Midday)}, {Hour})
    /\ storage \in {StorageHolding(<<>>, sp, sa, sd, sf) :
                       sp \in StoredProfiles, sa \in StoredActiveCycleIds,
                       sd \in StoredDaily, sf \in StoredFuture}

Next ==
    \/ LoadFromStorage
    \/ LoadInitialDataFailed
    \/ RunEffects
    \/ \E p \in Profiles : AddCycleProfile(p)
    \/ \E id \in CycleIds : RemoveCycleProfile(id)
    \/ \E id \in CycleIds : SetActiveCycleId(id)
    \/ RoomForDaily /\ SetCurrentDailyExpenses(AppDate, AppExpense)
    \/ RoomForFuture /\ SetCurrentFutureExpenses(AppFuture)
    \/ HandleForceCreateBudget
    \/ CloseForceCreateModal
    \/ RoomForBudget /\ HandleConfirmForceCreate
    \/ \E t \in LaterNows : Tick(t)

Spec == Init /\ [][Next]_vars

\* The profile lifecycle alone: the clock stands still and no budget is created.
NextProfiles ==
    \/ LoadFromStorage
    \/ LoadInitialDataFailed
    \/ RunEffects
    \/ \E p \in Profiles : AddCycleProfile(p)
    \/ \E id \in CycleIds : RemoveCycleProfile(id)
    \/ \E id \in CycleIds : SetActiveCycleId(id)
    \/ RoomForDaily /\ SetCurrentDailyExpenses(AppDate, AppExpense)
    \/ RoomForFuture /\ SetCurrentFutureExpenses(AppFuture)

SpecProfiles == Init /\ [][NextProfiles]_vars

\* The profile lifecycle when the expenses view can also clear the active cycle:
\* setActiveCycleId accepts null.
NextSelect ==
    \/ NextProfiles
    \/ SetActiveCycleId(NoCycle)

SpecSelect == Init /\ [][NextSelect]_vars

-----------------------------------------------------------------------------
(* The saved budgets: the editor's save and update, the delete modal and the
   force-create flow, on a first start and with one stored cycle profile. *)

MaxSaved == 2
MaxQueued == 2

RoomForSaved == Len(savedBudgets) < MaxSaved
RoomInQueue == Len(budgetUpdates) < MaxQueued

\* What the editor hands to onSave.
EditorBudgets ==
    {[name |-> <<"Mi presupuesto">>, totalIncome |-> 800,
      categories |-> [i \in DOMAIN INITIAL_CATEGORIES |->
                         [id |-> INITIAL_CATEGORIES[i],
                          amount |-> IF INITIAL_CATEGORIES[i] = "food" THEN 300 ELSE 500]],
      dateSaved |-> ParseLocal(D(2024, 1, 15), Midday), frequency |-> "mensual"]}

\* What the editor hands to onUpdate for a listed budget: the same id, edited fields.
Edited(budget) == [budget EXCEPT !.name = <<"Editado">>, !.totalIncome = 900]

BudgetNows == {ParseLocal(D(2024, 1, 15), Midday + 1)}

\* Expenses stored under a cycle id whose profile is gone.
DanglingDaily == [k \in {"a"} |-> [d \in {AppDate} |-> <<AppExpense>>]]

InitBudgets ==
    /\ InitWith({ParseLocal(D(2024, 1, 15), Midday)}, {Hour})
    /\ storage \in {EmptyStorage,
                     StorageHolding(<<>>, <<ProfileA>>, "a", EmptyMap, EmptyMap),
                     StorageHolding(<<>>, <<>>, "a", DanglingDaily, EmptyMap)}

NextBudgets ==
    \/ LoadFromStorage
    \/ LoadInitialDataFailed
    \/ RunEffects
    \/ \E data \in EditorBudgets : RoomForSaved /\ RoomInQueue /\ HandleSaveNewBudget(data)
    \/ \E i \in DOMAIN savedBudgets :
          RoomInQueue /\ HandleUpdateBudget(Edited(savedBudgets[i]))
    \/ \E i \in DOMAIN savedBudgets : OpenDeleteModal(savedBudgets[i])
    \/ CloseDeleteModal
    \/ RoomInQueue /\ HandleConfirmDelete
    \/ FlushBudgetUpdates
    \/ HandleForceCreateBudget
    \/ CloseForceCreateModal
    \/ RoomForSaved /\ HandleConfirmForceCreate
    \/ \E id \in CycleIds : RemoveCycleProfile(id)
    \/ \E t \in BudgetNows : Tick(t)

SpecBudgets == InitBudgets /\ [][NextBudgets]_vars

-----------------------------------------------------------------------------
(* The initial load: each key absent or holding a value; the budgets key may hold a
   value that is not a list of budget records. *)

StoredBudgets ==
    SaveNewBudget(<<>>, CHOOSE data \in EditorBudgets : TRUE, ParseLocal(D(2024, 1, 10), Midday))

\* A stored value of the wrong shape: an object where the list of budgets is expected.
MalformedBudgets == <<[malformed |-> TRUE]>>

InitLoad ==
    /\ InitWith({ParseLocal(D(2024, 1, 15), Midday)}, {Hour})
    /\ storage \in {[key \in StoreKeys |-> IF key \in DOMAIN data THEN data[key] ELSE Null] :
                       data \in [budgets : {Null, Some(StoredBudgets), Some(MalformedBudgets)},
                                 globalSavings : {Null, Some(250)},
                                 cycleProfiles : {Null, Some(<<ProfileA>>)},
                                 activeCycleId : {Null, Some("a")},
                                 allDaily : {Null, Some(DanglingDaily)},
                                 allFuture : {Null, Some([k \in {"a"} |-> <<AppFuture>>])}]}

NextLoad ==
    \/ LoadFromStorage
    \/ LoadInitialDataFailed
    \/ \E key \in StorageKeys : LoadInitialDataGetRejected(key)
    \/ RunEffects

\* loadInitialData ends in its catch block.
LoadFails == LoadInitialDataFailed \/ \E key \in StorageKeys : LoadInitialDataGetRejected(key)

\* The awaited promises settle, one way or the other.
LoadSettles == LoadFails \/ LoadFromStorage

\* The requests to the store settle and the continuation of loadInitialData then runs.
SpecLoad == InitLoad /\ [][NextLoad]_vars /\ WF_vars(LoadSettles)

-----------------------------------------------------------------------------
(* The period while time passes: the application stays open from 2024-01-15 on. *)

InitClock ==
    /\ InitWith({ParseLocal(D(2024, 1, 15), Midday)}, {0})
    /\ storage \in {StorageHolding(<<>>, <<p>>, p.id, EmptyMap, EmptyMap) : p \in PeriodProfiles}

NextClock ==
    \/ LoadFromStorage
    \/ LoadInitialDataFailed
    \/ RunEffects
    \/ \E dateStr \in PeriodDates, exp \in PeriodExpenses :
          RoomForDaily /\ SetCurrentDailyExpenses(dateStr, exp)
    \/ \E t \in NowValues : Tick(t)

SpecClock == InitClock /\ [][NextClock]_vars

-----------------------------------------------------------------------------
(* Advancing dates: cycles that start in 2024, on month ends and on the leap day,
   looked at during 2024. *)

AdvanceStartDates == {D(2024, 1, 31), D(2024, 2, 29)}

AdvanceProfiles ==
    {Profile("p1", startDate, frequency, 1000) :
        startDate \in AdvanceStartDates, frequency \in Frequencies}

AdvanceNows == {ParseLocal(D(2024, 3, 1), 8 * Hour),
                ParseLocal(D(2024, 6, 15), Midday)}

\* Future expenses that recur from a month end or from the leap day on, and ones that
\* recur across the end of the year.
AdvanceFutures ==
    {Future("f1", "food", 100, D(2024, 1, 31), Null, "mensual"),
     Future("f2", "food", 100, D(2024, 2, 29), Null, "anual"),
     Future("f3", "food", 100, D(2024, 12, 25), Null, "semanal"),
     Future("f4", "food", 100, D(2024, 12, 25), Null, "quincenal")}

InitAdvance ==
    /\ InitWith(AdvanceNows, {0})
    /\ storage \in {StorageHolding(<<>>, <<p>>, p.id, EmptyMap, EmptyMap) : p \in AdvanceProfiles}

NextAdvance ==
    \/ LoadFromStorage
    \/ LoadInitialDataFailed
    \/ RunEffects
    \/ RoomForDaily /\ savedBudgets = <<>> /\ SetCurrentDailyExpenses(AppDate, AppExpense)
    \/ \E fe \in AdvanceFutures :
          RoomForFuture /\ savedBudgets = <<>> /\ SetCurrentFutureExpenses(fe)
    \/ HandleForceCreateBudget
    \/ CloseForceCreateModal
    \/ RoomForBudget /\ HandleConfirmForceCreate
    \/ \E t \in AdvanceNows : Tick(t)

SpecAdvance == InitAdvance /\ [][NextAdvance]_vars

-----------------------------------------------------------------------------
(* Expenses filed under a category id that is not in the registry. *)

UnknownDates == {D(2024, 1, 10), D(2024, 1, 16)}

UnknownExpenses == {Expense("food", 50), Expense("other", 20), Expense("other", 2000)}

UnknownFutures ==
    { Future("f1", "other", 30, D(2024, 1, 8), Null, "semanal"),
      Future("f2", "food", 100, D(2024, 1, 20), Null, "una-vez") }

InitUnknown ==
    /\ InitWith({ParseLocal(D(2024, 1, 15), Midday)}, {Hour})
    /\ storage \in {StorageHolding(<<>>, <<ProfileA>>, "a", EmptyMap, EmptyMap)}

\* Expenses are logged and planned first; budgets are force-created afterwards.
NextUnknown ==
    \/ LoadFromStorage
    \/ RunEffects
    \/ \E dateStr \in UnknownDates, exp \in UnknownExpenses :
          RoomForDaily /\ savedBudgets = <<>> /\ SetCurrentDailyExpenses(dateStr, exp)
    \/ \E fe \in UnknownFutures :
          RoomForFuture /\ savedBudgets = <<>> /\ SetCurrentFutureExpenses(fe)
    \/ HandleForceCreateBudget
    \/ CloseForceCreateModal
    \/ RoomForBudget /\ HandleConfirmForceCreate

SpecUnknown == InitUnknown /\ [][NextUnknown]_vars

-----------------------------------------------------------------------------
(* SpecStartup: the mount effects, the migration from localStorage, the load with its
   updates batched or not, a failed load, and the first edits after loading *)

\* Every effect runs after the first commit.
MountEffects ==
    {"selectFirst", "cleanup", "liveBudget", "saveBudgets", "saveGlobalSavings",
     "saveCycleProfiles", "saveActiveCycleId", "saveAllDaily", "saveAllFuture"}

\* What an earlier version of the application left in localStorage: data of this user
\* (the daily expenses unparseable, the savings an empty string), of another user, the
\* kept keys, and a key of another application.
LegacyLocalStorage ==
    [key \in StoreKeys |->
        CASE key = "budgets" -> Some(Stringified(StoredBudgets))
          [] key = "globalSavings" -> Some(Raw(""))
          [] key = "cycleProfiles" -> Some(Stringified(<<ProfileB>>))
          [] key = "allDaily" -> Some(Raw("{\"b\":"))
          [] key = "otherUserBudgets" -> Some(Stringified(<<>>))
          [] key = "currentUser" -> Some(Raw("ana"))
          [] key = "lastUser" -> Some(Raw("ana"))
          [] key = "theme" -> Some(Raw("dark"))
          [] key = "users" -> Some(Stringified(<<"ana", "otro">>))
          [] key = "unrelated" -> Some(Stringified(<<"x">>))
          [] OTHER -> Null]

\* Only the kept keys and the key of another application.
KeptOnlyLocalStorage ==
    [key \in StoreKeys |->
        IF key \in KeysToKeep \ {"migrationComplete"} \/ key = "unrelated"
        THEN LegacyLocalStorage[key] ELSE Null]

StartupLocalStorages ==
    {LegacyLocalStorage, SetMigrationFlag(LegacyLocalStorage), KeptOnlyLocalStorage,
     MigratedLocalStorage}

\* The store of this session: empty, or written by an earlier session, with the
\* entries of a cycle "x" whose profile is gone.
StartupStorages ==
    {EmptyStorage,
     StorageHolding(StoredBudgets, <<ProfileA, ProfileB>>, "a",
                    [k \in {"a", "x"} |-> [d \in {AppDate} |-> <<AppExpense>>]],
                    [k \in {"b", "x"} |-> <<AppFuture>>]),
     StorageHolding(<<>>, <<ProfileA>>, NoCycle, DanglingDaily, EmptyMap)}

InitStartup ==
    /\ Constructed({ParseLocal(D(2024, 1, 15), Midday)}, {Hour})
    /\ effectsPending = MountEffects
    /\ localStorage \in StartupLocalStorages
    /\ loadPc = "migrate"
    /\ storage \in StartupStorages

NextStartup ==
    \/ RunEffects
    \/ \E completes \in BOOLEAN : MigrateFromLocalStorage(completes)
    \/ LoadFromStorage
    \/ LoadCommit
    \/ LoadCommitFinally
    \/ LoadInitialDataFailed
    \/ \E key \in StorageKeys : LoadInitialDataGetRejected(key)
    \/ \E amount \in {0, 100} : SetGlobalSavings(amount)
    \/ \E id \in CycleIds : RemoveCycleProfile(id)
    \/ \E id \in CycleIds : SetActiveCycleId(id)
    \/ RoomForDaily /\ SetCurrentDailyExpenses(AppDate, AppExpense)
    \/ RoomForFuture /\ SetCurrentFutureExpenses(AppFuture)
    \/ \E i \in DOMAIN savedBudgets :
          RoomInQueue /\ HandleUpdateBudget(Edited(savedBudgets[i]))
    \/ FlushBudgetUpdates

SpecStartup == InitStartup /\ [][NextStartup]_vars

-----------------------------------------------------------------------------
(* Properties of the period and of the in-period spending *)

ActiveConfig == ActiveCycleConfigOf(cycleProfiles, activeCycleId)
CurrentDaily == CurrentDailyExpensesOf(allDailyExpenses, activeCycleId)
CurrentFuture == CurrentFutureExpensesOf(allFutureExpenses, activeCycleId)
HasPeriod == periodStartDate # Null /\ periodEndDate # Null
ConfiguredStart == ParseLocal(ActiveConfig[1].startDate, Midnight)

\* The expenses of a mapping, as (date, position) pairs.
ExpensePairs(daily) ==
    UNION {{<<k, i>> : i \in DOMAIN daily[k]} : k \in DOMAIN daily}

RECURSIVE SumAmounts(_, _)
SumAmounts(daily, pairs) ==
    IF pairs = {} THEN 0
    ELSE LET q == CHOOSE q \in pairs : TRUE
         IN  daily[q[1]][q[2]].amount + SumAmounts(daily, pairs \ {q})

\* A date key, read at midday, lies in [start, end].
MiddayWithin(k, start, end) ==
    LET noon == [day |-> DaysFromCivil(k.y, k.m, k.d), ms |-> Midday]
    IN  Lte(start, noon) /\ Lte(noon, end)

\* The sum of the amounts of the category's expenses dated inside [start, end].
SumInPeriod(daily, c, start, end) ==
    SumAmounts(daily, {q \in ExpensePairs(daily) :
                          /\ daily[q[1]][q[2]].categoryId = c
                          /\ MiddayWithin(q[1], start, end)})

\* C1: for every cycle config and every fixed clock value, the resolved period has
\* start <= now <= end, and advancing start by one unit of the frequency gives the
\* next period start, which is end + 1ms.
C1_PeriodContainment ==
    HasPeriod =>
        /\ Lte(periodStartDate[1], now)
        /\ Lte(now, periodEndDate[1])
        /\ Advance(periodStartDate[1], ActiveConfig[1].frequency) = PlusOneMs(periodEndDate[1])

\* C2: when the configured startDate is later than now, the period starts at the
\* configured startDate (midnight) and ends one millisecond before
\* advance(startDate, frequency), so that end > start.
C2_FutureStartPeriod ==
    (HasPeriod /\ Lt(now, ConfiguredStart)) =>
        /\ periodStartDate[1] = ConfiguredStart
        /\ periodEndDate[1] = MinusOneMs(Advance(ConfiguredStart, ActiveConfig[1].frequency))
        /\ Lt(periodStartDate[1], periodEndDate[1])

\* C4: the aggregated amount of every registry category is the sum of the amounts of
\* exactly the expenses with that categoryId whose date key, at midday, lies within
\* [periodStart, periodEnd]; the summary lists the categories whose sum is positive,
\* with that sum.
C4_AggregationCorrect ==
    HasPeriod =>
        /\ \A c \in CategoryIds :
              SpentByCategory(CurrentDaily, periodStartDate[1], periodEndDate[1])[c]
                = SumInPeriod(CurrentDaily, c, periodStartDate[1], periodEndDate[1])
        /\ \A i \in DOMAIN currentPeriodSpending :
              /\ currentPeriodSpending[i].category \in CategoryIds
              /\ currentPeriodSpending[i].amount
                   = SumInPeriod(CurrentDaily, currentPeriodSpending[i].category,
                                 periodStartDate[1], periodEndDate[1])
        /\ \A c \in CategoryIds :
              SumInPeriod(CurrentDaily, c, periodStartDate[1], periodEndDate[1]) > 0
                => \E i \in DOMAIN currentPeriodSpending : currentPeriodSpending[i].category = c

\* The example of the specification: 50 logged on 2024-01-05 and 20 on 2024-02-01 for
\* food, period 2024-01-01 .. 2024-01-31: food is 50.
C4_Witness ==
    /\ HasPeriod
    /\ periodStartDate[1] = ParseLocal(D(2024, 1, 1), Midnight)
    /\ periodEndDate[1] = ParseLocal(D(2024, 1, 31), MsPerDay - 1)
    /\ DOMAIN CurrentDaily = {D(2024, 1, 5), D(2024, 2, 1)}
    /\ CurrentDaily[D(2024, 1, 5)] = <<Expense("food", 50)>>
    /\ CurrentDaily[D(2024, 2, 1)] = <<Expense("food", 20)>>
    /\ currentPeriodSpending = <<[category |-> "food", amount |-> 50]>>

\* C9: once the effects have run, the live budget stamps every registry category
\* with its unfiltered in-period total, also when that total is zero or negative.
C9_LiveBudgetUnfiltered ==
    (Idle /\ HasPeriod /\ currentCycleBudget # Null) =>
        \A i \in DOMAIN currentCycleBudget[1].categories :
            currentCycleBudget[1].categories[i].amount
              = SumInPeriod(CurrentDaily, currentCycleBudget[1].categories[i].id,
                            periodStartDate[1], periodEndDate[1])

-----------------------------------------------------------------------------
(* Properties of the force-created budget *)

\* handleConfirmForceCreate has just appended a budget.
ForceCreated ==
    /\ last.op = "handleConfirmForceCreate"
    /\ HasPeriod
    /\ ActiveConfig # Null
    /\ savedBudgets # <<>>

NewBudget == savedBudgets[Len(savedBudgets)]

\* The entries of a mapping whose date key, at midday, lies in [start, end].
WithinPeriodOnly(daily, start, end) ==
    [k \in {d \in DOMAIN daily : MiddayWithin(d, start, end)} |-> daily[k]]

\* The occurrence dates of a future expense from t on: t, advance(t), ..., up to the
\* window's end, those kept that lie in [start, end] and whose calendar date is not
\* after the expense's endDate.
RECURSIVE OccurrencesFrom(_, _, _, _)
OccurrencesFrom(fe, t, start, end) ==
    IF ~Lte(t, end) THEN <<>>
    ELSE LET kept == IF Lte(start, t) /\ (fe.endDate = Null \/ DateLte(DateKey(t), fe.endDate[1]))
                     THEN <<DateKey(t)>> ELSE <<>>
         IN  IF fe.frequency = "una-vez" THEN kept
             ELSE kept \o OccurrencesFrom(fe, Advance(t, fe.frequency), start, end)

Occurrences(fe, start, end) ==
    OccurrencesFrom(fe, ParseLocal(fe.startDate, Midnight), start, end)

\* The date keys the materialization of a future expense emits, in order.
EmittedDates(fe) ==
    LET Keys(pushed) == [i \in DOMAIN pushed |-> pushed[i].dateKey]
    IN  Keys(Materialize(fe, periodStartDate[1], periodEndDate[1], tz))

SeqElems(s) == {s[i] : i \in DOMAIN s}

\* C3: in a force-created budget the daily expenses dated outside the current period
\* change no category amount: the budget is the one built from the in-period daily
\* expenses and the materialized future expenses.
C3_ForceCreateCountsInPeriodOnly ==
    ForceCreated =>
        NewBudget.categories
          = NewCategories(AllExpensesInCycle(WithinPeriodOnly(CurrentDaily, periodStartDate[1],
                                                              periodEndDate[1]),
                                             CurrentFuture, periodStartDate[1],
                                             periodEndDate[1], tz),
                          ActiveConfig[1].income)

\* C5: for every future expense of the cycle, the force-create expansion emits
\* exactly the occurrences startDate, advance(startDate), ... that fall within the
\* period and not after endDate, each once, in chronological order.
C5_MaterializeExactOccurrences ==
    ForceCreated =>
        \A i \in DOMAIN CurrentFuture :
            EmittedDates(CurrentFuture[i])
              = Occurrences(CurrentFuture[i], periodStartDate[1], periodEndDate[1])

\* C6: for a recurring future expense with an endDate, the occurrence whose calendar
\* date equals endDate and lies within the period is emitted, in every timezone.
C6_EndDateOccurrenceEmitted ==
    ForceCreated =>
        \A i \in DOMAIN CurrentFuture :
            LET fe == CurrentFuture[i]
            IN  (/\ fe.frequency # "una-vez"
                 /\ fe.endDate # Null
                 /\ fe.endDate[1] \in SeqElems(Occurrences(fe, periodStartDate[1],
                                                           periodEndDate[1])))
                => fe.endDate[1] \in SeqElems(EmittedDates(fe))

\* C7: a 'una-vez' future expense yields exactly one synthetic expense when its
\* startDate lies inside the period and none when it lies outside.
C7_OneOffYieldsOne ==
    ForceCreated =>
        \A i \in DOMAIN CurrentFuture :
            LET fe == CurrentFuture[i]
                start == ParseLocal(fe.startDate, Midnight)
            IN  fe.frequency = "una-vez" =>
                  Len(EmittedDates(fe))
                    = (IF Lte(periodStartDate[1], start) /\ Lte(start, periodEndDate[1])
                       THEN 1 ELSE 0)

AmountOf(categories, c) ==
    SumSeq([i \in DOMAIN categories |->
               IF categories[i].id = c THEN categories[i].amount ELSE 0])

NonSavingsTotal(categories) ==
    SumSeq([i \in DOMAIN categories |->
               IF categories[i].id = "savings" THEN 0 ELSE categories[i].amount])

\* C8: in every force-created budget the savings amount is
\* max(0, income - sum of the non-savings amounts): the residual, whatever was logged
\* under 'savings', and never negative.
C8_SavingsResidual ==
    ForceCreated =>
        /\ NewBudget.totalIncome = ActiveConfig[1].income
        /\ AmountOf(NewBudget.categories, "savings") >= 0
        /\ AmountOf(NewBudget.categories, "savings")
             = (IF NewBudget.totalIncome - NonSavingsTotal(NewBudget.categories) > 0
                THEN NewBudget.totalIncome - NonSavingsTotal(NewBudget.categories)
                ELSE 0)

\* The example of the specification: income 1000, non-savings total 750 (with 40
\* logged under savings): savings is 250.
C8_Witness ==
    /\ ForceCreated
    /\ NewBudget.totalIncome = 1000
    /\ NonSavingsTotal(NewBudget.categories) = 750
    /\ AmountOf(NewBudget.categories, "savings") = 250
    /\ \E q \in ExpensePairs(CurrentDaily) :
          /\ CurrentDaily[q[1]][q[2]].categoryId = "savings"
          /\ MiddayWithin(q[1], periodStartDate[1], periodEndDate[1])

-----------------------------------------------------------------------------
(* Properties of the orphan cleanup *)

\* The entries of the given cycles are the same in both mappings.
SameEntries(before, after, ids) ==
    \A k \in ids : /\ (k \in DOMAIN before) = (k \in DOMAIN after)
                   /\ k \in DOMAIN before => after[k] = before[k]

\* C10: after a cycle profile is removed (loading has finished), the next run of the
\* cleanup effect removes that profile id's entry from allDailyExpenses and from
\* allFutureExpenses and leaves the entries of every profile still in cycleProfiles
\* identical.
C10_OrphanCleanup ==
    [][ (last.op = "removeCycleProfile" /\ "cleanup" \in effectsPending) =>
            /\ last.id \notin DOMAIN allDailyExpenses'
            /\ last.id \notin DOMAIN allFutureExpenses'
            /\ SameEntries(allDailyExpenses, allDailyExpenses', ProfileIdsOf(cycleProfiles))
            /\ SameEntries(allFutureExpenses, allFutureExpenses', ProfileIdsOf(cycleProfiles))
      ]_vars

\* The cleanup after removing a profile has dropped its daily and its future entry
\* and kept those of the other profile.
C10_Witness ==
    /\ last.op = "removeCycleProfile"
    /\ last.dailyChanged /\ last.futureChanged
    /\ last.id \notin ProfileIdsOf(cycleProfiles)
    /\ last.id \notin DOMAIN allDailyExpenses
    /\ last.id \notin DOMAIN allFutureExpenses
    /\ \E k \in ProfileIdsOf(cycleProfiles) :
          k \in DOMAIN allDailyExpenses /\ k \in DOMAIN allFutureExpenses

-----------------------------------------------------------------------------
(* No active cycle configuration *)

\* activeCycleId is null or names no profile of cycleProfiles.
NoActiveConfig == activeCycleId = NoCycle \/ activeCycleId \notin ProfileIdsOf(cycleProfiles)

-----------------------------------------------------------------------------
(* The saved budgets *)

\* C12: the records of savedBudgets have pairwise distinct ids.
C12_DistinctIds ==
    \A i, j \in DOMAIN savedBudgets : savedBudgets[i].id = savedBudgets[j].id => i = j

\* The collection as the first k queued updates leave it.
PendingBudgets(k) == ApplyUpdates(savedBudgets, SubSeq(budgetUpdates, 1, k))

\* C13: every save of a render cycle appends exactly its one record to the collection
\* as the handlers called before it left it, so that every earlier record and edit is
\* kept; a successful force-create appends exactly one record to savedBudgets.
C13_SaveKeepsEarlierUpdates ==
    [][/\ FlushBudgetUpdates =>
            \A k \in DOMAIN budgetUpdates :
                budgetUpdates[k].op = "handleSaveNewBudget" =>
                    PendingBudgets(k) = Append(PendingBudgets(k - 1), budgetUpdates[k].arg)
       /\ (HandleConfirmForceCreate /\ ~NoActiveConfig) =>
            /\ Len(savedBudgets') = Len(savedBudgets) + 1
            /\ SubSeq(savedBudgets', 1, Len(savedBudgets)) = savedBudgets]_vars

\* The records ever handed to the store under KEYS.BUDGETS or held by savedBudgets.
SavedAndStored == SeqElems(savedBudgets) \cup SeqElems(Stored(storage.budgets, <<>>))

\* C14: no record of savedBudgets, and none stored under the budgets key, has the id of
\* the live budget; the effect that recomputes the live budget leaves savedBudgets as
\* it was.
C14_LiveBudgetNeverSaved ==
    /\ [](\A b \in SavedAndStored : b.id # LiveId)
    /\ [][RunEffects => savedBudgets' = savedBudgets]_vars

\* The live budget exists next to saved and stored budgets, and the effect that sets
\* it has run.
C14_Witness ==
    /\ currentCycleBudget # Null
    /\ currentCycleBudget[1].id = LiveId
    /\ savedBudgets # <<>>
    /\ Stored(storage.budgets, <<>>) = savedBudgets
    /\ effectsPending = {}

-----------------------------------------------------------------------------
(* The period and the clock *)

\* What the period memo yields for the current inputs and the current clock.
PeriodNow == PeriodMemo(cycleProfiles, activeCycleId, allDailyExpenses, now)

\* C15: the reported period, the spend summary and, once the effects have run, the live
\* budget are the ones of the current inputs and the current clock: when now has passed
\* the end of the period in force, the next period is reported.
C15_PeriodFollowsClock ==
    ~NoActiveConfig =>
        /\ periodStartDate = PeriodNow.periodStartDate
        /\ periodEndDate = PeriodNow.periodEndDate
        /\ currentPeriodSpending = PeriodNow.currentPeriodSpending
        /\ effectsPending = {} =>
              /\ currentCycleBudget # Null
              /\ currentCycleBudget[1].categories = LiveCategories(PeriodNow.currentPeriodSpending)

-----------------------------------------------------------------------------
(* The initial load *)

\* The in-memory collections equal the given values.
Holds(budgets, profiles, id, daily, future) ==
    /\ savedBudgets' = budgets
    /\ cycleProfiles' = profiles
    /\ activeCycleId' = id
    /\ allDailyExpenses' = daily
    /\ allFutureExpenses' = future

\* C16: loading ends; after a load whose reads resolve each collection holds the value
\* stored under its key, or its empty default where nothing is stored, and after a load
\* that fails each collection holds its empty default.
C16_LoadingEnds ==
    /\ <>(~isLoading)
    /\ [][/\ LoadFromStorage =>
               Holds(IF storage.budgets = Null THEN <<>> ELSE storage.budgets[1],
                     IF storage.cycleProfiles = Null THEN <<>> ELSE storage.cycleProfiles[1],
                     IF storage.activeCycleId = Null THEN NoCycle ELSE storage.activeCycleId[1],
                     IF storage.allDaily = Null THEN EmptyMap ELSE storage.allDaily[1],
                     IF storage.allFuture = Null THEN EmptyMap ELSE storage.allFuture[1])
          /\ LoadFails => Holds(<<>>, <<>>, NoCycle, EmptyMap, EmptyMap)
          /\ ~isLoading => ~isLoading']_vars

\* A load has ended with some keys stored and others absent.
C16_Witness ==
    /\ ~isLoading
    /\ last.op = "loadInitialData"
    /\ savedBudgets = StoredBudgets
    /\ cycleProfiles = <<>>
    /\ allDailyExpenses # EmptyMap

\* C17: a malformed value stored under the budgets key is replaced by the empty list
\* while the other keys keep their stored values, and when the read of one key fails
\* the other keys hold their stored values.
C17_MalformedFallsBack ==
    [][/\ LoadFromStorage =>
             Holds(IF storage.budgets \in {Null, Some(MalformedBudgets)} THEN <<>>
                   ELSE storage.budgets[1],
                   Stored(storage.cycleProfiles, <<>>), Stored(storage.activeCycleId, NoCycle),
                   Stored(storage.allDaily, EmptyMap), Stored(storage.allFuture, EmptyMap))
       /\ \A key \in StorageKeys :
             LoadInitialDataGetRejected(key) =>
                 /\ key # "budgets" => savedBudgets' = Stored(storage.budgets, <<>>)
                 /\ key # "cycleProfiles" => cycleProfiles' = Stored(storage.cycleProfiles, <<>>)
                 /\ key # "activeCycleId" => activeCycleId' = Stored(storage.activeCycleId, NoCycle)
                 /\ key # "allDaily" => allDailyExpenses' = Stored(storage.allDaily, EmptyMap)
                 /\ key # "allFuture" => allFutureExpenses' = Stored(storage.allFuture, EmptyMap)]_vars

-----------------------------------------------------------------------------
(* Advancing a date *)

\* How many successive advances of the period start are looked at.
MaxAdvances == 12

\* t followed by its n successive advances.
RECURSIVE Advances(_, _, _)
Advances(t, frequency, n) ==
    LET Extend(dates) == Append(dates, Advance(Last(dates), frequency))
    IN  IF n = 0 THEN <<t>> ELSE Extend(Advances(t, frequency, n - 1))

StrictlyIncreasing(dates) == \A n \in 1 .. Len(dates) - 1 : Lt(dates[n], dates[n + 1])

\* C18: each advance of the period start, of the start of each recurring future
\* expense, and of every date that follows them within MaxAdvances advances, yields a
\* strictly later date; when the period loop has run, it has ended with the first
\* advance of the period start as the next cycle start.
C18_AdvanceStrictlyLater ==
    HasPeriod =>
        /\ StrictlyIncreasing(Advances(periodStartDate[1], ActiveConfig[1].frequency,
                                       MaxAdvances))
        /\ \A i \in DOMAIN CurrentFuture :
              StrictlyIncreasing(Advances(ParseLocal(CurrentFuture[i].startDate, Midnight),
                                          CurrentFuture[i].frequency, MaxAdvances))
        /\ Lt(periodStartDate[1], periodEndDate[1]) =>
              periodEndDate[1] = MinusOneMs(Advance(periodStartDate[1],
                                                    ActiveConfig[1].frequency))

\* The period loop has advanced a monthly cycle that starts on the 31st, and a budget
\* was force-created from a monthly future expense that starts on the 31st.
C18_Witness ==
    /\ ForceCreated
    /\ ActiveConfig[1].frequency = "mensual"
    /\ ActiveConfig[1].startDate = D(2024, 1, 31)
    /\ Lt(ConfiguredStart, periodStartDate[1])
    /\ \E i \in DOMAIN CurrentFuture : CurrentFuture[i].frequency = "mensual"

\* The number of days of a calendar month.
DaysInMonth(y, m) ==
    DaysFromCivil(y + (m \div 12), (m % 12) + 1, 1) - DaysFromCivil(y, m, 1)

Min(a, b) == IF a <= b THEN a ELSE b

\* One unit of the frequency after t: 7 days, 14 days, the same day-of-month of the
\* following calendar month, clamped to that month's last day, or a date of the
\* following calendar year.
OneUnitLater(t, frequency, advanced) ==
    LET InNextMonth(from, y, m, to) ==
            /\ to.y = y /\ to.m = m
            /\ to.d = Min(from.d, DaysInMonth(y, m))
        Monthly(from, to) ==
            InNextMonth(from, from.y + (from.m \div 12), (from.m % 12) + 1, to)
    IN  /\ advanced.ms = t.ms
        /\ CASE frequency = "semanal"   -> advanced.day = t.day + 7
             [] frequency = "quincenal" -> advanced.day = t.day + 14
             [] frequency = "mensual"   -> Monthly(CivilFromDays(t.day),
                                                   CivilFromDays(advanced.day))
             [] frequency = "anual"     -> CivilFromDays(advanced.day).y
                                              = CivilFromDays(t.day).y + 1

\* C19: the advance of the period start, and of the start of each recurring future
\* expense, lies exactly one unit of the frequency later.
C19_AdvanceByOneUnit ==
    HasPeriod =>
        /\ OneUnitLater(periodStartDate[1], ActiveConfig[1].frequency,
                        Advance(periodStartDate[1], ActiveConfig[1].frequency))
        /\ \A i \in DOMAIN CurrentFuture :
              OneUnitLater(ParseLocal(CurrentFuture[i].startDate, Midnight),
                           CurrentFuture[i].frequency,
                           Advance(ParseLocal(CurrentFuture[i].startDate, Midnight),
                                   CurrentFuture[i].frequency))

-----------------------------------------------------------------------------
(* Unknown category ids *)

Known(exp) == exp.categoryId \in CategoryIds

\* The logged expenses without those filed under an unknown category id.
KnownDaily == [d \in DOMAIN CurrentDaily |-> SelectSeq(CurrentDaily[d], Known)]

\* The planned expenses without those filed under an unknown category id.
KnownFuture == SelectSeq(CurrentFuture, Known)

\* C20: the spend summary, the live budget (once the effects have run) and a
\* force-created budget, savings residual included, are what they would be without the
\* expenses filed under a category id that is not in the registry.
C20_UnknownCategoryDropped ==
    HasPeriod =>
        /\ currentPeriodSpending
             = PositiveOnly(SpentByCategory(KnownDaily, periodStartDate[1], periodEndDate[1]))
        /\ (Idle /\ currentCycleBudget # Null) =>
              currentCycleBudget[1].categories
                = LiveCategories(PositiveOnly(SpentByCategory(KnownDaily, periodStartDate[1],
                                                              periodEndDate[1])))
        /\ ForceCreated =>
              NewBudget.categories
                = NewCategories(AllExpensesInCycle(KnownDaily, KnownFuture, periodStartDate[1],
                                                   periodEndDate[1], tz),
                                ActiveConfig[1].income)

\* A budget was force-created while a logged and a planned expense of the period are
\* filed under an unknown category id.
C20_Witness ==
    /\ ForceCreated
    /\ \E d \in DOMAIN CurrentDaily :
          /\ KnownDaily[d] # CurrentDaily[d]
          /\ MiddayWithin(d, periodStartDate[1], periodEndDate[1])
    /\ KnownFuture # CurrentFuture
    /\ currentCycleBudget # Null

-----------------------------------------------------------------------------
(* The period of a cycle that has started *)

\* target is t or one of the dates reached from t by successive advances.
RECURSIVE ReachedByAdvances(_, _, _)
ReachedByAdvances(t, target, frequency) ==
    IF t = target THEN TRUE
    ELSE IF Lt(target, t) THEN FALSE
    ELSE ReachedByAdvances(Advance(t, frequency), target, frequency)

NextStart == Advance(periodStartDate[1], ActiveConfig[1].frequency)

NoonOf(dateStr) == [day |-> DaysFromCivil(dateStr.y, dateStr.m, dateStr.d), ms |-> Midday]

\* C21: when the configured start is at or before now, the period start is reached from
\* it by advances, start <= now < nextStart, end = nextStart - 1ms, and a date key at
\* midday is attributed to the period exactly when start <= date < nextStart.
C21_StartedCyclePeriod ==
    (HasPeriod /\ Lte(ConfiguredStart, now)) =>
        /\ ReachedByAdvances(ConfiguredStart, periodStartDate[1], ActiveConfig[1].frequency)
        /\ Lte(periodStartDate[1], now)
        /\ Lt(now, NextStart)
        /\ periodEndDate[1] = MinusOneMs(NextStart)
        /\ \A dateStr \in PeriodDates \cup DOMAIN CurrentDaily :
              InPeriod(dateStr, periodStartDate[1], periodEndDate[1])
                <=> (Lte(periodStartDate[1], NoonOf(dateStr)) /\ Lt(NoonOf(dateStr), NextStart))

\* now is exactly the start of a period reached by several advances, and an expense is
\* logged in that period.
C21_Witness ==
    /\ HasPeriod
    /\ now = periodStartDate[1]
    /\ Lt(ConfiguredStart, periodStartDate[1])
    /\ \E dateStr \in DOMAIN CurrentDaily :
          InPeriod(dateStr, periodStartDate[1], periodEndDate[1])

-----------------------------------------------------------------------------
(* Nothing is persisted while loading *)

\* C22: in every step taken while the initial load is in progress the store keeps its
\* content under each of the user's six data keys: the persistence effects, which run
\* after the mount and after every commit made while loading, issue no set and no
\* remove (only the migration writes, before the reads).
C22_NothingPersistedWhileLoading ==
    [][(isLoading /\ last'.op # "migrateFromLocalStorage")
          => \A key \in StorageKeys : storage'[key] = storage[key]]_vars

\* The persistence effects have run while loading, with in-memory values that differ
\* from the stored ones: after the mount, and after a commit of the unbatched load.
C22_Witness ==
    /\ isLoading /\ effectsPending = {}
    /\ loadPc = "cycleProfiles"
    /\ savedBudgets # <<>> /\ cycleProfiles # <<>>
    /\ storage.allDaily # Null /\ storage.allDaily # Some(allDailyExpenses)

-----------------------------------------------------------------------------
(* A failed load and the stored data *)

LoadFailedLast == last.op \in {"loadInitialDataFailed", "loadInitialDataGetRejected"}

\* C23: when the initial load ended in its catch block, nothing having been loaded or
\* entered since, the effects that run next leave the value stored under each of the
\* user's data keys as it was.
C23_FailedLoadKeepsStored ==
    [][LoadFailedLast => \A key \in StorageKeys : storage'[key] = storage[key]]_vars

-----------------------------------------------------------------------------
(* The orphan cleanup and the loaded expenses *)

\* The load has completed and no handler has run since.
LoadedLast == last.op = "loadInitialData" /\ ~isLoading

\* The entry the store holds for a cycle under an expenses key, if any.
StoredEntry(stored, default, id) ==
    IF id \in DOMAIN Stored(stored, default) THEN Some(Stored(stored, default)[id]) ELSE Null

EntryOf(allExpenses, id) ==
    IF id \in DOMAIN allExpenses THEN Some(allExpenses[id]) ELSE Null

\* C24: the effects that run once loading has finished keep, for every profile id of
\* the stored cycle profiles, the daily and the future expenses stored for that id,
\* whether the updates of the load commit together or one by one.
C24_CleanupKeepsLoadedExpenses ==
    [][(LoadedLast /\ effectsPending # {}) =>
          \A id \in ProfileIdsOf(Stored(storage.cycleProfiles, <<>>)) :
              /\ StoredEntry(storage.allDaily, EmptyMap, id) # Null =>
                    EntryOf(allDailyExpenses', id) = StoredEntry(storage.allDaily, EmptyMap, id)
              /\ StoredEntry(storage.allFuture, EmptyMap, id) # Null =>
                    EntryOf(allFutureExpenses', id)
                       = StoredEntry(storage.allFuture, EmptyMap, id)]_vars

\* The load committed its updates one by one, the effects have all run, the cleanup
\* dropped the entries of the cycle whose profile is gone and the entries of the
\* stored profiles are in memory.
C24_Witness ==
    /\ LoadedLast /\ effectsPending = {} /\ loadPc = "loaded"
    /\ "a" \in DOMAIN allDailyExpenses /\ "x" \notin DOMAIN allDailyExpenses
    /\ "b" \in DOMAIN allFutureExpenses /\ "x" \notin DOMAIN allFutureExpenses
    /\ Stored(storage.allDaily, EmptyMap) = allDailyExpenses

-----------------------------------------------------------------------------
(* The store follows the state *)

\* What the persistence effect of a key leaves in the store for the rendered state.
InMemory(key) ==
    CASE key = "budgets" -> Some(savedBudgets)
      [] key = "globalSavings" -> Some(globalSavings)
      [] key = "cycleProfiles" -> Some(cycleProfiles)
      [] key = "activeCycleId" -> IF activeCycleId = NoCycle THEN Null ELSE Some(activeCycleId)
      [] key = "allDaily" -> Some(allDailyExpenses)
      [] key = "allFuture" -> Some(allFutureExpenses)

-----------------------------------------------------------------------------
(* The expense setters and the other cycles *)

\* C26: a call of setCurrentDailyExpenses or setCurrentFutureExpenses leaves the entry
\* of every cycle other than the active one as it was, in both mappings, and changes
\* nothing at all when activeCycleId is null.
C26_SettersTouchActiveCycleOnly ==
    [][(Interactive /\ last'.op \in {"setCurrentDailyExpenses", "setCurrentFutureExpenses"}) =>
          /\ \A k \in (DOMAIN allDailyExpenses \cup DOMAIN allDailyExpenses') \ {activeCycleId} :
                EntryOf(allDailyExpenses', k) = EntryOf(allDailyExpenses, k)
          /\ \A k \in (DOMAIN allFutureExpenses \cup DOMAIN allFutureExpenses') \ {activeCycleId} :
                EntryOf(allFutureExpenses', k) = EntryOf(allFutureExpenses, k)
          /\ last'.op = "setCurrentDailyExpenses" => allFutureExpenses' = allFutureExpenses
          /\ last'.op = "setCurrentFutureExpenses" => allDailyExpenses' = allDailyExpenses
          /\ activeCycleId = NoCycle =>
                allDailyExpenses' = allDailyExpenses /\ allFutureExpenses' = allFutureExpenses
      ]_vars

\* An expense was added to the active cycle while another cycle holds expenses of its
\* own, daily and future.
C26_Witness ==
    /\ last.op = "setCurrentDailyExpenses"
    /\ last.id # NoCycle /\ last.id = activeCycleId
    /\ effectsPending # {}
    /\ activeCycleId \in DOMAIN allDailyExpenses
    /\ \E k \in DOMAIN allDailyExpenses : k # activeCycleId
    /\ \E k \in DOMAIN allFutureExpenses : k # activeCycleId

\* The setter was called with no active cycle.
C26_CalledWithoutCycle ==
    /\ last.op \in {"setCurrentDailyExpenses", "setCurrentFutureExpenses"}
    /\ last.id = NoCycle

-----------------------------------------------------------------------------
(* Force-create and the expense state *)

\* C27: confirming a force-create leaves allDailyExpenses, allFutureExpenses,
\* cycleProfiles and activeCycleId as they were, and no daily expense in memory or in
\* the store carries the id of a materialised future expense.
C27_ForceCreateLeavesExpenses ==
    /\ [][(Interactive /\ last'.op = "handleConfirmForceCreate") =>
             /\ allDailyExpenses' = allDailyExpenses
             /\ allFutureExpenses' = allFutureExpenses
             /\ cycleProfiles' = cycleProfiles
             /\ activeCycleId' = activeCycleId]_vars
    /\ [](\A c \in DOMAIN allDailyExpenses : \A d \in DOMAIN allDailyExpenses[c] :
             \A i \in DOMAIN allDailyExpenses[c][d] : allDailyExpenses[c][d][i].id[1] # "future")
    /\ [](\A c \in DOMAIN Stored(storage.allDaily, EmptyMap) :
             \A d \in DOMAIN Stored(storage.allDaily, EmptyMap)[c] :
                \A i \in DOMAIN Stored(storage.allDaily, EmptyMap)[c][d] :
                   Stored(storage.allDaily, EmptyMap)[c][d][i].id[1] # "future")

\* A budget was force-created from a future expense with an occurrence on a date that
\* already holds a logged expense, and the store has been written since.
C27_Witness ==
    /\ last.op = "handleConfirmForceCreate"
    /\ savedBudgets # <<>>
    /\ Idle
    /\ HasPeriod
    /\ \E i \in DOMAIN CurrentFuture :
          \E j \in DOMAIN Materialize(CurrentFuture[i], periodStartDate[1], periodEndDate[1], tz) :
             Materialize(CurrentFuture[i], periodStartDate[1], periodEndDate[1], tz)[j].dateKey
                \in DOMAIN CurrentDaily
    /\ storage.allDaily = Some(allDailyExpenses)

-----------------------------------------------------------------------------
(* Selecting the first cycle *)

NothingSelected == ~isLoading /\ activeCycleId = NoCycle /\ Len(cycleProfiles) > 0

\* C28: after loading, a state with no active cycle and at least one profile always
\* has the select-first effect pending, the run of the effects then makes the first
\* profile the active cycle, so no such state is left once the effects have run; and
\* a run of the effects never changes an activeCycleId that is set, dangling or not.
C28_FirstCycleSelected ==
    /\ [](NothingSelected => "selectFirst" \in effectsPending)
    /\ [][(NothingSelected /\ effectsPending # {}) =>
             activeCycleId' = cycleProfiles[1].id]_vars
    /\ [][(effectsPending # {} /\ activeCycleId # NoCycle) =>
             activeCycleId' = activeCycleId]_vars

\* The effect selected the first of two profiles after the active cycle was cleared.
C28_Witness ==
    /\ last.op = "setActiveCycleId" /\ last.id = NoCycle
    /\ Idle /\ ~isLoading
    /\ Len(cycleProfiles) = 2
    /\ activeCycleId = cycleProfiles[1].id

\* The effects have run and left an active cycle id that names no profile.
C28_DanglingKept ==
    /\ Idle /\ ~isLoading
    /\ activeCycleId # NoCycle
    /\ activeCycleId \notin ProfileIdsOf(cycleProfiles)
    /\ Len(cycleProfiles) > 0

-----------------------------------------------------------------------------
(* The migration from localStorage *)

MigrationFlagSet(ls) == ls["migrationComplete"] = Some(FlagTrue)

\* The step is a call of migrateFromLocalStorage.
MigrationStep == loadPc = "migrate" /\ loadPc' = "get"

\* C29: a call of migrateFromLocalStorage always returns to loadInitialData, which
\* goes on to its reads; it sets the flag only when it found nothing to migrate or
\* when the transaction completed, having put the parsed value of every key to
\* migrate; with the flag already 'true' it writes nothing; when the transaction fails
\* the flag stays unset and nothing is written; and no key of the keep-list, nor a key
\* without the prefix, is ever in the store.
C29_MigrationContract ==
    /\ [][MigrationStep =>
             /\ last'.op = "migrateFromLocalStorage" /\ isLoading'
             /\ (~MigrationFlagSet(localStorage) /\ MigrationFlagSet(localStorage')) =>
                   \/ KeysToMigrate(localStorage) = {} /\ storage' = storage
                   \/ /\ last'.id = "migrated"
                      /\ \A key \in KeysToMigrate(localStorage) :
                            localStorage[key][1].json # Null =>
                               storage'[key] = localStorage[key][1].json
             /\ MigrationFlagSet(localStorage) =>
                   storage' = storage /\ localStorage' = localStorage
             /\ last'.id = "failed" =>
                   /\ ~MigrationFlagSet(localStorage')
                   /\ storage' = storage /\ localStorage' = localStorage
             /\ \A key \in DOMAIN localStorage \ {"migrationComplete"} :
                   localStorage'[key] = localStorage[key]]_vars
    /\ [](\A key \in KeysToKeep \cup {"unrelated"} : storage[key] = Null)
    /\ [](loadPc = "migrate" => isLoading)

\* The migration completed with the kept keys and legacy data in localStorage: the
\* legacy budgets and the other user's key are in the store, the flag is set.
C29_Witness ==
    /\ last = Handler("migrateFromLocalStorage", "migrated")
    /\ MigrationFlagSet(localStorage)
    /\ localStorage["users"] # Null /\ localStorage["theme"] # Null
    /\ storage["budgets"] = Some(StoredBudgets)
    /\ storage["otherUserBudgets"] = Some(<<>>)
    /\ storage["users"] = Null

\* The transaction failed: the flag is unset and loadInitialData goes on.
C29_FailedRetried ==
    /\ last = Handler("migrateFromLocalStorage", "failed")
    /\ ~MigrationFlagSet(localStorage)
    /\ loadPc = "get"

\* The flag was set before the call although legacy data is present: nothing written.
C29_AlreadyComplete ==
    /\ last = Handler("migrateFromLocalStorage", "alreadyComplete")
    /\ localStorage["budgets"] # Null
    /\ storage = EmptyStorage

-----------------------------------------------------------------------------
(* The orphan cleanup reaches a fixed point *)

\* One pass over a mapping leaves only keys that are profile ids, and a second pass
\* over its result returns it unchanged and reports no change.
FixedPoint(allExpenses, profileIds) ==
    LET Second(first) ==
            /\ DOMAIN first.cleaned \subseteq profileIds
            /\ CleanExpenses(first.cleaned, profileIds)
                  = [cleaned |-> first.cleaned, changed |-> FALSE]
    IN  Second(CleanExpenses(allExpenses, profileIds))

\* The last run of the cleanup effect removed entries.
CleanupChanged == last.dailyChanged \/ last.futureChanged

\* C30: one pass of the cleanup leaves only keys of existing profiles, a second pass
\* with the same cycleProfiles changes nothing and sets no state, and the cleanup is
\* then no longer pending.
C30_CleanupFixedPoint ==
    /\ [](/\ FixedPoint(allDailyExpenses, ProfileIdsOf(cycleProfiles))
          /\ FixedPoint(allFutureExpenses, ProfileIdsOf(cycleProfiles)))
    /\ [](CleanupChanged =>
             /\ "cleanup" \in effectsPending
             /\ DOMAIN allDailyExpenses \subseteq ProfileIdsOf(cycleProfiles)
             /\ DOMAIN allFutureExpenses \subseteq ProfileIdsOf(cycleProfiles))
    /\ [][CleanupChanged =>
             /\ allDailyExpenses' = allDailyExpenses
             /\ allFutureExpenses' = allFutureExpenses
             /\ ~last'.dailyChanged /\ ~last'.futureChanged
             /\ "cleanup" \notin effectsPending']_vars

\* The first pass has just dropped the daily and the future entries of a cycle without
\* a profile and kept those of an existing one; the second pass is pending.
C30_Witness ==
    /\ last.dailyChanged /\ last.futureChanged
    /\ "cleanup" \in effectsPending
    /\ allDailyExpenses # EmptyMap
    /\ allFutureExpenses # EmptyMap

====
